---- MODULE Spec2Model ----
(***************************************************************************)
(* Model of the boot-hn interactive command session engine:                *)
(*   - the Session Store and Session Agent (app/models/agent.py,           *)
(*     app/services/agent.py, app/services/ai_service.py),                 *)
(*   - the commands reached through CommandManager.execute_command,        *)
(*   - the progress animation (WelcomeApp._animate_progress),              *)
(*   - the input state machine WelcomeApp.on_input_submitted.              *)
(*                                                                         *)
(* The specifications are defined over the same variables:                 *)
(*   SpecAgent   : a client driving one Agent instance through its API     *)
(*   SpecStore   : the same with delete_session                            *)
(*   SpecListing : sessions started until one listing cannot hold them     *)
(*   SpecManager : the command registry called by name                     *)
(*   Spec        : the WelcomeApp engine driven by submitted input lines   *)
(*   SpecPump    : the engine fed through the app's message queue          *)
(*   SpecCancel  : the engine whose handler coroutine may be cancelled     *)
(*   SpecScreen  : the command screen of app/ui/command_screen.py          *)
(***************************************************************************)
EXTENDS Integers, Sequences, FiniteSets, TLC

VARIABLES
    sessions,          \* rows of table agent_sessions (set of records)
    messages,          \* rows of table agent_messages, in rowid order
    clock,             \* value func.now() returns (second resolution)
    current_session,   \* Agent.current_session of the driven Agent (0 = None)
    agent_last,        \* observation of the last Agent call (history variable)
    app,               \* the fields of WelcomeApp set in __init__
    progress,          \* the ProgressBar widget #progress
    anim,              \* the task running _animate_progress
    pc,                \* where the handler stands: idle, running, completing, exited
    work,              \* the command task a handler awaits beside the animation
    turn,              \* observation of the line being processed (history variable)
    inbox,             \* messages posted to the app and not yet dispatched
    manager_last       \* observation of the last CommandManager call (history variable)

storeVars == <<sessions, messages, clock>>
agentVars == <<sessions, messages, clock, current_session, agent_last>>
engineVars == <<app, progress, anim, pc, work, turn, inbox, manager_last>>
vars == <<sessions, messages, clock, current_session, agent_last,
          app, progress, anim, pc, work, turn, inbox, manager_last>>

----------------------------------------------------------------------------
(* Bounds of the model *)

MaxSessions == 1
MaxMessages == 3
MaxClock == 0

(* rows the store may hold in the runs of the engine *)
MaxAppSessions == 1
MaxAppMessages == 2

----------------------------------------------------------------------------
(* Small helpers *)

NoSession == 0

Max(S) == CHOOSE x \in S : \A y \in S : y <= x

Front(s) == SubSeq(s, 1, Len(s) - 1)

Last(s) == s[Len(s)]

NextId(ids) == IF ids = {} THEN 1 ELSE Max(ids) + 1

SessionIds(S) == {s.id : s \in S}

MessageIds(M) == {M[i].id : i \in DOMAIN M}

SessionById(S, sid) == CHOOSE s \in S : s.id = sid

(* Texts used as message contents and error causes *)
(* a text is the sequence of the parts an f-string concatenates *)
UserTexts == {<<"hello">>}
SystemPrompts == {"sys"}
Titles == {"Test Session"}
AIResponseText == <<"reply">>
AIErrorText == "network error"
DbErrorText == "database error"

BlankResponseText == <<" ">>

(* Outcome of the remote call made inside AIService.send_message: a text,  *)
(* a text of blanks only, or an exception                                  *)
AIOutcomes == {"ok", "error"}
AllAIOutcomes == AIOutcomes \cup {"blank"}

(* Where the persistence collaborator fails during one Agent call:         *)
(*   create      : the commit of create_session                            *)
(*   user_add    : first commit of add_message for the user Message        *)
(*   user_touch  : second commit (updated_at) of that add_message          *)
(*   asst_add / asst_touch : the same for the assistant Message            *)
AgentFailPoints == {"none", "create", "user_add", "user_touch", "asst_add", "asst_touch"}

(* update : the commit of User.update_configuration                        *)
DbFailPoints == AgentFailPoints \cup {"update"}

----------------------------------------------------------------------------
(* Session Store: app/models/agent.py *)

(* AgentSession.create_session: db.add, db.commit, db.refresh.  Of the row  *)
(* the model keeps the columns an operation reads or writes later; title,  *)
(* user_id and model_used are written here once and never read back.       *)
(* updated_at has no default, only onupdate: the new row holds NULL (-1).  *)
create_session(S, title, now, fails) ==
    IF fails
    THEN [sessions |-> S, id |-> NoSession, raised |-> TRUE]
    ELSE LET sid == NextId(SessionIds(S))
         IN [sessions |-> S \cup {[id |-> sid, is_active |-> TRUE, updated_at |-> -1]},
             id |-> sid, raised |-> FALSE]

(* add_message that swallows the error of its first commit *)
add_message_unchecked(S, M, sid, role, content, meta, now, fail) ==
    IF fail = "add"
    THEN [sessions |-> S, messages |-> M, id |-> 0, raised |-> FALSE]
    ELSE LET mid == NextId(MessageIds(M))
             row == [id |-> mid, session_id |-> sid, role |-> role,
                     content |-> content, meta |-> meta, created_at |-> now]
         IN [sessions |-> {IF s.id = sid THEN [s EXCEPT !.updated_at = now] ELSE s : s \in S},
             messages |-> Append(M, row), id |-> mid, raised |-> (fail = "touch")]

(* AgentSession.add_message: the Message is committed by the first commit, *)
(* the session's updated_at by the second one.  fail is "none", "add"      *)
(* (first commit raises) or "touch" (second commit raises).                *)
add_message(S, M, sid, role, content, meta, now, fail) ==
    IF fail = "add"
    THEN [sessions |-> S, messages |-> M, id |-> 0, raised |-> TRUE]
    ELSE LET mid == NextId(MessageIds(M))
             row == [id |-> mid, session_id |-> sid, role |-> role,
                     content |-> content, meta |-> meta, created_at |-> now]
             M1 == Append(M, row)
         IN IF fail = "touch"
            THEN [sessions |-> S, messages |-> M1, id |-> mid, raised |-> TRUE]
            ELSE [sessions |-> {IF s.id = sid THEN [s EXCEPT !.updated_at = now] ELSE s : s \in S},
                  messages |-> M1, id |-> mid, raised |-> FALSE]

(* AgentSession.messages: the relationship collection, loaded in rowid order *)
session_messages(M, sid) == SelectSeq(M, LAMBDA m : m.session_id = sid)

(* an unstable sort: an element goes before the elements with an equal key *)
InsertBeforeEqual(s, m) ==
    LET k == Cardinality({i \in 1..Len(s) : s[i].created_at < m.created_at})
    IN SubSeq(s, 1, k) \o <<m>> \o SubSeq(s, k + 1, Len(s))

(* sorted(..., key=lambda x: x.created_at): Python's sort is stable, an     *)
(* element goes after every element whose key is not greater.              *)
InsertByCreatedAt(s, m) ==
    LET k == Cardinality({i \in 1..Len(s) : s[i].created_at <= m.created_at})
    IN SubSeq(s, 1, k) \o <<m>> \o SubSeq(s, k + 1, Len(s))

RECURSIVE SortedByCreatedAt(_)
SortedByCreatedAt(s) ==
    IF s = <<>> THEN <<>>
    ELSE InsertByCreatedAt(SortedByCreatedAt(Front(s)), Last(s))

(* AgentSession.get_conversation_history *)
get_conversation_history(M, sid) ==
    LET srt == SortedByCreatedAt(session_messages(M, sid))
    IN [i \in 1..Len(srt) |-> [role |-> srt[i].role, content |-> srt[i].content]]

(* AgentMessage.to_dict *)
to_dict(m) == [id |-> m.id, role |-> m.role, content |-> m.content,
               metadata |-> m.meta, created_at |-> m.created_at]

----------------------------------------------------------------------------
(* AI Client Facade: app/services/ai_service.py *)

(* the loop of AIService.send_message that formats the history for Gemini *)
format_chat_history(conversation_history) ==
    [i \in 1..Len(conversation_history) |->
        [role |-> IF conversation_history[i].role = "user" THEN "user" ELSE "model",
         parts |-> <<conversation_history[i].content>>]]

(* a facade that reports an exception of the remote call as an empty reply *)
AIService_send_message_masking(message, conversation_history, ai) ==
    [success |-> TRUE,
     response |-> IF ai = "ok" THEN AIResponseText
                  ELSE IF ai = "blank" THEN BlankResponseText ELSE <<>>,
     error |-> "",
     message |-> message,
     conversation_history |-> conversation_history,
     chat_history |-> format_chat_history(conversation_history)]

(* AIService.send_message: every exception of the remote call is caught    *)
(* and reported as success=False with its text.                            *)
AIService_send_message(message, conversation_history, ai) ==
    [success |-> (ai # "error"),
     response |-> IF ai = "ok" THEN AIResponseText
                  ELSE IF ai = "blank" THEN BlankResponseText ELSE <<>>,
     error |-> IF ai # "error" THEN "" ELSE AIErrorText,
     message |-> message,
     conversation_history |-> conversation_history,
     chat_history |-> format_chat_history(conversation_history)]

(* AIService.send_system_message: combines the texts and calls             *)
(* send_message without a conversation history.                            *)
AIService_send_system_message(system_prompt, user_message, ai) ==
    AIService_send_message(<<"System: ", system_prompt, "\n\nUser: ", user_message>>, <<>>, ai)

----------------------------------------------------------------------------
(* Session Agent: app/services/agent.py *)

NoFacade == [called |-> FALSE, conversation_history |-> <<>>, chat_history |-> <<>>]

AgentOutcome(S, M, cur, result, facade) ==
    [sessions |-> S, messages |-> M, cur |-> cur, result |-> result, facade |-> facade]

FailResult(error, cur) ==
    [success |-> FALSE, error |-> error, response |-> <<>>, session_id |-> cur, message_id |-> 0]

(* the two add_message calls shared by send_message and                    *)
(* send_system_message (agent.py 85-119 and 154-193)                       *)
SaveExchange(S, M, cur, user_content, user_meta, asst_meta, ai_response, save, dbf, t1, t2, facade) ==
    IF save /\ cur # NoSession
    THEN LET u == add_message(S, M, cur, "user", user_content, user_meta, t1,
                              IF dbf = "user_add" THEN "add"
                              ELSE IF dbf = "user_touch" THEN "touch" ELSE "none")
         IN IF u.raised
            THEN AgentOutcome(u.sessions, u.messages, cur, FailResult(DbErrorText, cur), facade)
            ELSE LET a == add_message(u.sessions, u.messages, cur, "assistant",
                                      ai_response.response, asst_meta, t2,
                                      IF dbf = "asst_add" THEN "add"
                                      ELSE IF dbf = "asst_touch" THEN "touch" ELSE "none")
                 IN IF a.raised
                    THEN AgentOutcome(a.sessions, a.messages, cur, FailResult(DbErrorText, cur), facade)
                    ELSE AgentOutcome(a.sessions, a.messages, cur,
                                      [success |-> TRUE, error |-> "", response |-> ai_response.response,
                                       session_id |-> cur, message_id |-> a.id], facade)
    ELSE AgentOutcome(S, M, cur,
                      [success |-> TRUE, error |-> "", response |-> ai_response.response,
                       session_id |-> cur, message_id |-> 0], facade)

(* Agent.start_new_session *)
Agent_start_new_session(S, title, now, fails) == create_session(S, title, now, fails)

(* Agent.send_message *)
Agent_send_message(S, M, cur0, message, save, ai, dbf, t1, t2) ==
    LET cs == IF save /\ cur0 = NoSession
              THEN Agent_start_new_session(S, "None", t1, dbf = "create")
              ELSE [sessions |-> S, id |-> cur0, raised |-> FALSE]
    IN IF cs.raised
       THEN AgentOutcome(S, M, cur0, FailResult(DbErrorText, cur0), NoFacade)
       ELSE LET cur == cs.id
                conversation_history ==
                    IF cur # NoSession THEN get_conversation_history(M, cur) ELSE <<>>
                ai_response == AIService_send_message(message, conversation_history, ai)
                facade == [called |-> TRUE,
                           conversation_history |-> ai_response.conversation_history,
                           chat_history |-> ai_response.chat_history]
            IN IF ~ai_response.success
               THEN AgentOutcome(cs.sessions, M, cur, FailResult(ai_response.error, cur), facade)
               ELSE SaveExchange(cs.sessions, M, cur, message, "none", "response",
                                 ai_response, save, dbf, t1, t2, facade)

(* Agent.send_system_message *)
Agent_send_system_message(S, M, cur0, system_prompt, user_message, save, ai, dbf, t1, t2) ==
    LET cs == IF save /\ cur0 = NoSession
              THEN Agent_start_new_session(S, "System Chat", t1, dbf = "create")
              ELSE [sessions |-> S, id |-> cur0, raised |-> FALSE]
    IN IF cs.raised
       THEN AgentOutcome(S, M, cur0, FailResult(DbErrorText, cur0), NoFacade)
       ELSE LET cur == cs.id
                ai_response == AIService_send_system_message(system_prompt, user_message, ai)
                facade == [called |-> TRUE,
                           conversation_history |-> ai_response.conversation_history,
                           chat_history |-> ai_response.chat_history]
                combined_message == <<"System: ", system_prompt, "\n\nUser: ", user_message>>
            IN IF ~ai_response.success
               THEN AgentOutcome(cs.sessions, M, cur, FailResult(ai_response.error, cur), facade)
               ELSE SaveExchange(cs.sessions, M, cur, combined_message, "system_message",
                                 "system_response", ai_response, save, dbf, t1, t2, facade)

(* Agent.get_session_messages: session_id 0/None means the current session *)
Agent_get_session_messages(S, M, cur, session_id) ==
    LET sid == IF session_id # 0 THEN session_id ELSE cur
    IN IF sid = NoSession \/ sid \notin SessionIds(S)
       THEN <<>>
       ELSE LET srt == SortedByCreatedAt(session_messages(M, sid))
            IN [i \in 1..Len(srt) |-> to_dict(srt[i])]

(* a delete that leaves the Messages of the session in their table *)
Agent_delete_session_no_cascade(S, M, cur, session_id, fails) ==
    IF session_id \notin SessionIds(S)
    THEN [sessions |-> S, messages |-> M, cur |-> cur, returned |-> FALSE]
    ELSE IF fails
    THEN [sessions |-> S, messages |-> M, cur |-> cur, returned |-> FALSE]
    ELSE [sessions |-> {s \in S : s.id # session_id},
          messages |-> M,
          cur |-> IF cur # NoSession /\ cur = session_id THEN NoSession ELSE cur,
          returned |-> TRUE]

(* Agent.delete_session: the relationship cascades the delete to Messages  *)
Agent_delete_session(S, M, cur, session_id, fails) ==
    IF session_id \notin SessionIds(S)
    THEN [sessions |-> S, messages |-> M, cur |-> cur, returned |-> FALSE]
    ELSE IF fails
    THEN [sessions |-> S, messages |-> M, cur |-> cur, returned |-> FALSE]
    ELSE [sessions |-> {s \in S : s.id # session_id},
          messages |-> SelectSeq(M, LAMBDA m : m.session_id # session_id),
          cur |-> IF cur # NoSession /\ cur = session_id THEN NoSession ELSE cur,
          returned |-> TRUE]

----------------------------------------------------------------------------
(* Input texts.  A line is one of a fixed vocabulary; the string methods   *)
(* the code applies are tabulated on it.                                   *)

RawLines ==
    {"", " ", "/setup", "/models", "/init", "/clean", "/commit", "/review-changes",
     "/explain", "/clear", "/COMMIT", " /commit ", "hello", "0", "1", "2", "3", "5",
     "yes", "YES", "no", "edit", "edit Fix Bug", "Fix Bug", "clean", "stats",
     "paste", "file", "file main.py", "main.py", "current", "."}

(* str.strip() *)
Strip(t) ==
    CASE t = " " -> ""
      [] t = " /commit " -> "/commit"
      [] t = " commit " -> "commit"
      [] OTHER -> t

(* str.lower() *)
Lower(t) ==
    CASE t = "/COMMIT" -> "/commit"
      [] t = "COMMIT" -> "commit"
      [] t = "Read_File" -> "read_file"
      [] t = "YES" -> "yes"
      [] t = "edit Fix Bug" -> "edit fix bug"
      [] t = "Fix Bug" -> "fix bug"
      [] OTHER -> t

(* int(choice): raises ValueError unless the text is a decimal number *)
IsNumber(t) == t \in {"0", "1", "2", "3", "5"}

IntOf(t) ==
    CASE t = "0" -> 0 [] t = "1" -> 1 [] t = "2" -> 2 [] t = "3" -> 3 [] t = "5" -> 5
      [] OTHER -> 0

(* t.startswith(prefix) and t[5:].strip() for the prefixes "edit " and "file " *)
StartsWith(t, prefix) ==
    CASE prefix = "edit " -> t \in {"edit Fix Bug", "edit fix bug"}
      [] prefix = "file " -> t = "file main.py"
      [] OTHER -> FALSE

DropPrefix5(t) ==
    CASE t = "edit Fix Bug" -> "Fix Bug"
      [] t = "edit fix bug" -> "fix bug"
      [] t = "file main.py" -> "main.py"
      [] OTHER -> ""

(* ai_response["response"].strip() with a pair of surrounding quotes removed *)
CommitMessageOf(response) ==
    IF response = BlankResponseText \/ response = <<>> THEN "" ELSE response[1]

(* User.get_available_models *)
get_available_models ==
    <<"gemini-2.0-flash-exp", "gemini-1.5-pro", "gemini-1.5-flash", "gemini-pro">>

SeqToSet(q) == {q[i] : i \in DOMAIN q}

Contains(message, part) == part \in SeqToSet(message)

----------------------------------------------------------------------------
(* Commands: app/commands/*.py, reached through execute_command.           *)
(* env describes what the collaborators do during one invocation:          *)
(*   env.pre : "ok" or "fail", the checks and plain operations of the body *)
(*             (git, file system, configuration, database maintenance)     *)
(*   env.ai  : outcome of the remote call                                  *)
(*   env.dbf : where the persistence collaborator fails                    *)

(*   env.raises : where the invocation raises instead of returning: in     *)
(*             get_db, in the handler's constructor or in its execute      *)

(* the columns of the default user's row that the commands write: the row  *)
(* get_or_create_default_user has just created, the row after a setup with *)
(* a key typed at the terminal, and the row after a setup with the key of  *)
(* the .env file                                                           *)
StoredUsers ==
    {[gemini_api_key |-> "", selected_model |-> "", is_configured |-> FALSE],
     [gemini_api_key |-> "typed-key", selected_model |-> "gemini-1.5-pro",
      is_configured |-> TRUE],
     [gemini_api_key |-> "env-key", selected_model |-> "gemini-1.5-pro",
      is_configured |-> TRUE]}

(* User.update_configuration: the three columns are assigned and           *)
(* committed; when the commit raises the row is rolled back                *)
User_update_configuration(user, api_key, model, fails) ==
    IF fails
    THEN user
    ELSE [gemini_api_key |-> api_key, selected_model |-> model, is_configured |-> TRUE]

Envs == [pre : {"ok", "fail"}, ai : AllAIOutcomes, dbf : DbFailPoints,
         raises : {"none", "get_db", "constructor", "execute"}]

NoKw == [given |-> {}, action |-> "", model |-> "", project_path |-> "",
         commit_message |-> "", code |-> "", file_path |-> "", text |-> ""]

(* CommandResult(...).to_dict() and the prompt dictionaries; a key the     *)
(* dictionary lacks reads as falsy / empty through dict.get                *)
Outcome(success, prompt, message) ==
    [success |-> success, prompt |-> prompt, message |-> message,
     available_models |-> <<>>, commit_message |-> "", session_id |-> 0,
     available_commands |-> <<>>, model |-> ""]

NoAgent == [used |-> FALSE, result |-> FailResult("", NoSession), facade |-> NoFacade]

(* what one invocation returns and leaves behind: the dictionary, the      *)
(* store, the Agent call it made, its effect outside the store, and        *)
(* whether execute_command opened a database session for it (next(get_db())*)
(* returned) and closed it (db.close()); user gives, for each row the      *)
(* default user may have before the invocation, the row it has after it    *)
CommandReturn(result, S, M, agent, effect) ==
    [result |-> result, sessions |-> S, messages |-> M, agent |-> agent, effect |-> effect,
     raised |-> "", db |-> [opened |-> FALSE, closed |-> FALSE],
     user |-> [u \in StoredUsers |-> u]]

(* a command body that takes back the Session of a failed call *)
Asked_rolled_back(r) ==
    [started |-> TRUE,
     sessions |-> IF r.result.success THEN r.sessions
                  ELSE {s \in r.sessions : s.id # r.result.session_id},
     messages |-> r.messages, result |-> r.result, facade |-> r.facade]

(* what the command body keeps of the Agent call *)
Asked(r) ==
    [started |-> TRUE, sessions |-> r.sessions, messages |-> r.messages,
     result |-> r.result, facade |-> r.facade]

(* await agent.send_system_message(..., save_to_db=True) on the session    *)
(* just started, unless starting it raised                                 *)
AfterStart(cs, M, env, now) ==
    IF cs.raised
    THEN [started |-> FALSE, sessions |-> cs.sessions, messages |-> M,
          result |-> FailResult(DbErrorText, NoSession), facade |-> NoFacade]
    ELSE Asked(Agent_send_system_message(cs.sessions, M, cs.id, "sys", "hello",
                                         TRUE, env.ai, env.dbf, now, now))

(* Agent(self.db); agent.start_new_session(title);                         *)
(* await agent.send_system_message(..., save_to_db=True)                   *)
AskAgent(S, M, title, env, now) ==
    AfterStart(Agent_start_new_session(S, title, now, env.dbf = "create"), M, env, now)

AgentUsed(a) == [used |-> TRUE, result |-> a.result, facade |-> a.facade]

(* the dictionary an AI-backed command body returns for a successful      *)
(* response, by the command (named by the title of the session it starts)  *)
on_success(title, r) ==
    CASE title = "Project Documentation Generation" ->
            Outcome(TRUE, "", <<"Documentation generated">>)
      [] title = "Git Commit Message Generation" ->
            [Outcome(TRUE, "commit_confirm", <<"AI-generated commit message:">>)
                EXCEPT !.commit_message = CommitMessageOf(r.response),
                       !.session_id = r.session_id]
      [] title = "Code Review" ->
            [Outcome(TRUE, "review_save_confirm", <<"AI Code Review Complete:">>)
                EXCEPT !.session_id = r.session_id]
      [] title = "Code Explanation" ->
            [Outcome(TRUE, "", <<"Code Analysis Complete:">>) EXCEPT !.session_id = r.session_id]
      [] title = "General Assistant" ->
            [Outcome(TRUE, "", <<"Boot-hn Assistant:">>) EXCEPT !.session_id = r.session_id]
      [] title = "File Analysis" ->
            [Outcome(TRUE, "", <<"File Analysis Complete:">>) EXCEPT !.session_id = r.session_id]
      [] OTHER ->
            [Outcome(TRUE, "", <<"Directory Analysis Complete:">>)
                EXCEPT !.session_id = r.session_id]

(* the tail shared by the AI-backed command bodies: agent start failure,   *)
(* AI failure, or the command's own rendering of the response              *)
AIBackedReturn(a, title, failure_prefix) ==
    IF ~a.started
    THEN CommandReturn(Outcome(FALSE, "", <<"Failed to initialize AI agent: ", a.result.error>>),
                       a.sessions, a.messages, AgentUsed(a), "none")
    ELSE IF ~a.result.success
    THEN CommandReturn(Outcome(FALSE, "", <<failure_prefix, a.result.error>>),
                       a.sessions, a.messages, AgentUsed(a), "none")
    ELSE CommandReturn(on_success(title, a.result), a.sessions, a.messages, AgentUsed(a), "none")

AIBacked(S, M, title, env, now, failure_prefix) ==
    AIBackedReturn(AskAgent(S, M, title, env, now), title, failure_prefix)

(* SetupCommand.execute: reads its answers from the terminal, never        *)
(* returns a prompt                                                        *)
SetupCommand_execute(kw, env, S, M, now) ==
    CommandReturn(Outcome(env.pre = "ok", "", <<"setup">>), S, M, NoAgent, "none")

(* ModelsCommand.execute: api_key is settings.gemini_api_key, the key of   *)
(* the .env file, and it is the key passed to user.update_configuration    *)
ModelsCommand_execute(kw, env, S, M, now) ==
    IF env.pre = "fail"
    THEN CommandReturn(Outcome(FALSE, "", <<"Please set GEMINI_API_KEY in your .env file">>),
                       S, M, NoAgent, "none")
    ELSE IF kw.model = "" \/ kw.model \notin SeqToSet(get_available_models)
    THEN CommandReturn([Outcome(FALSE, "model", <<"Available models:">>)
                           EXCEPT !.available_models = get_available_models],
                       S, M, NoAgent, "none")
    ELSE IF env.dbf # "update"
    THEN [CommandReturn([Outcome(TRUE, "", <<"Model changed to: ", kw.model>>)
                            EXCEPT !.model = kw.model],
                        S, M, NoAgent, "model")
            EXCEPT !.user = [u \in StoredUsers |->
                                User_update_configuration(u, "env-key", kw.model, FALSE)]]
    ELSE [CommandReturn(Outcome(FALSE, "", <<"Failed to update model">>), S, M, NoAgent, "none")
            EXCEPT !.user = [u \in StoredUsers |->
                                User_update_configuration(u, "env-key", kw.model, TRUE)]]

(* InitCommand.execute *)
InitCommand_execute(kw, env, S, M, now) ==
    IF kw.project_path = ""
    THEN CommandReturn(Outcome(FALSE, "project_path", <<"Enter the project path to analyze:">>),
                       S, M, NoAgent, "none")
    ELSE IF env.pre = "fail"
    THEN CommandReturn(Outcome(FALSE, "", <<"No API key found. Please run /setup first">>),
                       S, M, NoAgent, "none")
    ELSE AIBacked(S, M, "Project Documentation Generation", env, now,
                  "AI documentation generation failed: ")

(* CleanCommand.execute: the text returned by the database operation is    *)
(* wrapped in CommandResult(True, ...) whatever it reports                 *)
CleanCommand_execute(kw, env, S, M, now) ==
    IF Lower(kw.action) = ""
    THEN CommandReturn(Outcome(FALSE, "action", <<"What would you like to do?">>),
                       S, M, NoAgent, "none")
    ELSE IF Lower(kw.action) = "clean"
    THEN IF env.pre = "ok"
         THEN CommandReturn(Outcome(TRUE, "", <<"Database cleaned successfully!">>),
                            {}, <<>>, NoAgent, "clean_database")
         ELSE CommandReturn(Outcome(TRUE, "", <<"Error cleaning database: ", DbErrorText>>),
                            S, M, NoAgent, "none")
    ELSE IF Lower(kw.action) \in {"stats", "vacuum"}
    THEN CommandReturn(Outcome(TRUE, "", <<Lower(kw.action)>>), S, M, NoAgent, "none")
    ELSE CommandReturn(Outcome(FALSE, "", <<"Unknown action: ", Lower(kw.action)>>),
                       S, M, NoAgent, "none")

(* CommitCommand.execute *)
CommitCommand_execute(kw, env, S, M, now) ==
    IF Lower(kw.action) = "execute" /\ kw.commit_message # ""
    THEN CommandReturn(Outcome(TRUE, "", <<IF env.pre = "ok" THEN "Commit successful!"
                                          ELSE "Git commit failed">>),
                       S, M, NoAgent, IF env.pre = "ok" THEN "git_commit" ELSE "none")
    ELSE IF env.pre = "fail"
    THEN CommandReturn(Outcome(FALSE, "", <<"Not a git repository">>), S, M, NoAgent, "none")
    ELSE AIBacked(S, M, "Git Commit Message Generation", env, now,
                  "AI commit message generation failed: ")

(* ReviewCommand.execute *)
ReviewCommand_execute(kw, env, S, M, now) ==
    IF env.pre = "fail"
    THEN CommandReturn(Outcome(FALSE, "", <<"Not a git repository">>), S, M, NoAgent, "none")
    ELSE AIBacked(S, M, "Code Review", env, now, "AI code review failed: ")

(* ExplainCommand.execute *)
ExplainCommand_execute(kw, env, S, M, now) ==
    IF kw.action = "analyze_code"
    THEN IF kw.code = ""
         THEN CommandReturn(Outcome(FALSE, "", <<"No code provided to analyze">>),
                            S, M, NoAgent, "none")
         ELSE IF env.pre = "fail"
         THEN CommandReturn(Outcome(FALSE, "", <<"No API key found. Please run /setup first">>),
                            S, M, NoAgent, "none")
         ELSE AIBacked(S, M, "Code Explanation", env, now, "AI code explanation failed: ")
    ELSE IF kw.action = "analyze_file"
    THEN IF kw.file_path = ""
         THEN CommandReturn(Outcome(FALSE, "", <<"No file path provided">>), S, M, NoAgent, "none")
         ELSE IF env.pre = "fail"
         THEN CommandReturn(Outcome(FALSE, "", <<"File not found: ", kw.file_path>>),
                            S, M, NoAgent, "none")
         ELSE AIBacked(S, M, "File Analysis", env, now, "AI file analysis failed: ")
    ELSE IF kw.action = "analyze_current_dir"
    THEN IF env.pre = "fail"
         THEN CommandReturn(Outcome(FALSE, "", <<"No API key found. Please run /setup first">>),
                            S, M, NoAgent, "none")
         ELSE AIBacked(S, M, "Directory Analysis", env, now, "AI directory analysis failed: ")
    ELSE CommandReturn(Outcome(TRUE, "explain_input", <<"What would you like me to explain?">>),
                       S, M, NoAgent, "none")

(* UnknownCommand.execute *)
UnknownCommand_execute(kw, env, S, M, now) ==
    IF Strip(kw.text) = ""
    THEN CommandReturn(Outcome(FALSE, "", <<"No input provided">>), S, M, NoAgent, "none")
    ELSE IF env.pre = "fail"
    THEN CommandReturn(Outcome(FALSE, "", <<"I need an API key configured first">>),
                       S, M, NoAgent, "none")
    ELSE AIBacked(S, M, "General Assistant", env, now, "AI assistant failed: ")

(* the values of AgentCommand, in definition order: the members           *)
(* _register_commands names, then the members of command_enum.py          *)
AgentCommand ==
    <<"setup", "models", "init", "clean", "commit", "review-changes", "explain", "unknown",
      "create_file", "read_file", "edit_file", "delete_file", "list_files",
      "analyze_code", "generate_code", "refactor_code", "debug_code", "format_code",
      "create_project", "build_project", "test_project", "deploy_project",
      "ask_ai", "explain_code", "suggest_improvements", "generate_docs",
      "execute_command", "install_package", "search_files",
      "show_help", "show_status", "clear_context", "exit">>

(* CommandManager.get_available_commands: the keys of _commands, in the    *)
(* order _register_commands inserts them                                   *)
get_available_commands ==
    <<"setup", "models", "init", "clean", "commit", "review-changes", "explain", "unknown">>

(* command_class(db) and its execute, by the registered class *)
command_instance_execute(name, kw, env, S, M, now) ==
    CASE name = "setup" -> SetupCommand_execute(kw, env, S, M, now)
      [] name = "models" -> ModelsCommand_execute(kw, env, S, M, now)
      [] name = "init" -> InitCommand_execute(kw, env, S, M, now)
      [] name = "clean" -> CleanCommand_execute(kw, env, S, M, now)
      [] name = "commit" -> CommitCommand_execute(kw, env, S, M, now)
      [] name = "review-changes" -> ReviewCommand_execute(kw, env, S, M, now)
      [] name = "explain" -> ExplainCommand_execute(kw, env, S, M, now)
      [] OTHER -> UnknownCommand_execute(kw, env, S, M, now)

(* execute_command without its except clause *)
execute_command_uncaught(command_name, kw, env, S, M, now) ==
    IF Strip(Lower(command_name)) \notin SeqToSet(AgentCommand)
    THEN CommandReturn([Outcome(FALSE, "", <<"Unknown command: ", command_name>>)
                           EXCEPT !.available_commands = AgentCommand],
                       S, M, NoAgent, "none")
    ELSE IF Strip(Lower(command_name)) \notin SeqToSet(get_available_commands)
    THEN CommandReturn(Outcome(FALSE, "",
                               <<"Command '", command_name, "' is not implemented yet">>),
                       S, M, NoAgent, "none")
    ELSE IF env.raises = "get_db"
    THEN [CommandReturn(Outcome(FALSE, "", <<>>), S, M, NoAgent, "none")
             EXCEPT !.raised = env.raises]
    ELSE IF env.raises = "constructor"
    THEN [CommandReturn(Outcome(FALSE, "", <<>>), S, M, NoAgent, "none")
             EXCEPT !.raised = env.raises, !.db = [opened |-> TRUE, closed |-> TRUE]]
    ELSE IF env.raises = "execute"
    THEN [CommandReturn(Outcome(FALSE, "", <<>>),
                       command_instance_execute(Strip(Lower(command_name)), kw, env, S, M, now).sessions,
                       command_instance_execute(Strip(Lower(command_name)), kw, env, S, M, now).messages,
                       NoAgent, "none")
             EXCEPT !.raised = env.raises, !.db = [opened |-> TRUE, closed |-> TRUE]]
    ELSE [command_instance_execute(Strip(Lower(command_name)), kw, env, S, M, now)
             EXCEPT !.db = [opened |-> TRUE, closed |-> TRUE]]

(* execute_command with db.close() after the awaited execute, not in a     *)
(* finally clause                                                          *)
execute_command_no_finally(command_name, kw, env, S, M, now) ==
    IF Strip(Lower(command_name)) \notin SeqToSet(AgentCommand)
    THEN CommandReturn([Outcome(FALSE, "", <<"Unknown command: ", command_name>>)
                           EXCEPT !.available_commands = AgentCommand],
                       S, M, NoAgent, "none")
    ELSE IF Strip(Lower(command_name)) \notin SeqToSet(get_available_commands)
    THEN CommandReturn(Outcome(FALSE, "",
                               <<"Command '", command_name, "' is not implemented yet">>),
                       S, M, NoAgent, "none")
    ELSE IF env.raises = "get_db"
    THEN CommandReturn(Outcome(FALSE, "", <<"Error executing command: ", env.raises>>),
                       S, M, NoAgent, "none")
    ELSE IF env.raises = "constructor"
    THEN [CommandReturn(Outcome(FALSE, "", <<"Error executing command: ", env.raises>>),
                        S, M, NoAgent, "none")
             EXCEPT !.db = [opened |-> TRUE, closed |-> FALSE]]
    ELSE IF env.raises = "execute"
    THEN [CommandReturn(Outcome(FALSE, "", <<"Error executing command: ", env.raises>>),
                       command_instance_execute(Strip(Lower(command_name)), kw, env, S, M, now).sessions,
                       command_instance_execute(Strip(Lower(command_name)), kw, env, S, M, now).messages,
                       NoAgent, "none")
             EXCEPT !.db = [opened |-> TRUE, closed |-> FALSE]]
    ELSE [command_instance_execute(Strip(Lower(command_name)), kw, env, S, M, now)
             EXCEPT !.db = [opened |-> TRUE, closed |-> TRUE]]

(* CommandManager.execute_command: the name is looked up in AgentCommand   *)
(* and in _commands, the database session is taken from get_db, the        *)
(* handler is built and awaited and the session is closed in the finally   *)
(* clause; whatever is raised on the way becomes the returned dictionary.  *)
(* When get_db raises no session was opened.                               *)
execute_command(command_name, kw, env, S, M, now) ==
    IF Strip(Lower(command_name)) \notin SeqToSet(AgentCommand)
    THEN CommandReturn([Outcome(FALSE, "", <<"Unknown command: ", command_name>>)
                           EXCEPT !.available_commands = AgentCommand],
                       S, M, NoAgent, "none")
    ELSE IF Strip(Lower(command_name)) \notin SeqToSet(get_available_commands)
    THEN CommandReturn(Outcome(FALSE, "",
                               <<"Command '", command_name, "' is not implemented yet">>),
                       S, M, NoAgent, "none")
    ELSE IF env.raises = "get_db"
    THEN CommandReturn(Outcome(FALSE, "", <<"Error executing command: ", env.raises>>),
                       S, M, NoAgent, "none")
    ELSE IF env.raises = "constructor"
    THEN [CommandReturn(Outcome(FALSE, "", <<"Error executing command: ", env.raises>>),
                        S, M, NoAgent, "none")
             EXCEPT !.db = [opened |-> TRUE, closed |-> TRUE]]
    ELSE IF env.raises = "execute"
    THEN [CommandReturn(Outcome(FALSE, "", <<"Error executing command: ", env.raises>>),
                       command_instance_execute(Strip(Lower(command_name)), kw, env, S, M, now).sessions,
                       command_instance_execute(Strip(Lower(command_name)), kw, env, S, M, now).messages,
                       NoAgent, "none")
             EXCEPT !.db = [opened |-> TRUE, closed |-> TRUE]]
    ELSE [command_instance_execute(Strip(Lower(command_name)), kw, env, S, M, now)
             EXCEPT !.db = [opened |-> TRUE, closed |-> TRUE]]

----------------------------------------------------------------------------
(* Interaction engine: app/ui/welcome_screen.py, class WelcomeApp.         *)
(* A handler is split where it awaits execute_command: the part before     *)
(* the call yields a plan, the part after it takes the returned dictionary.*)
(* None is written "" for texts and <<>> for lists.                        *)

NoReviewData == [present |-> FALSE, session_id |-> 0]

(* WelcomeApp.__init__ *)
AppInit ==
    [setup_step |-> "", models |-> <<>>, current_command |-> "",
     init_waiting_for_path |-> FALSE,
     clean_waiting_for_action |-> FALSE, pending_clean_action |-> "",
     commit_waiting_for_confirmation |-> FALSE, pending_commit_message |-> "",
     review_waiting_for_confirmation |-> FALSE, pending_review_data |-> NoReviewData,
     explain_waiting_for_input |-> FALSE, explain_input_type |-> ""]

(* WelcomeApp._reset_state *)
reset_state(a) ==
    [a EXCEPT !.setup_step = "", !.models = <<>>, !.current_command = "",
              !.init_waiting_for_path = FALSE,
              !.clean_waiting_for_action = FALSE, !.pending_clean_action = "",
              !.commit_waiting_for_confirmation = FALSE, !.pending_commit_message = "",
              !.review_waiting_for_confirmation = FALSE, !.pending_review_data = NoReviewData]

(* time in tenths of a second *)
step == 5
message_period == 60
CommitDuration == 450
ReviewDuration == 450
ExplainDuration == 450
InitDuration == 600

(* number of captions the animation cycles through, by operation *)
CommitCaptions == 8
DefaultCaptions == 8
OtherCaptions == 9

(* the handler finishes without calling execute_command *)
Local(handler, a, render) ==
    [kind |-> "local", handler |-> handler, command |-> "", kw |-> NoKw,
     duration |-> 0, captions |-> 0, app |-> a, render |-> render]

(* the handler awaits execute_command directly *)
Call(handler, command, kw, a, render) ==
    [kind |-> "call", handler |-> handler, command |-> command, kw |-> kw,
     duration |-> 0, captions |-> 0, app |-> a, render |-> render]

(* the handler shows the progress bar, starts the animation task and the   *)
(* command task and awaits the command task                                *)
Wrapped(handler, command, kw, duration, captions, a, render) ==
    [kind |-> "wrapped", handler |-> handler, command |-> command, kw |-> kw,
     duration |-> duration, captions |-> captions, app |-> a, render |-> render]

(* the if result.get("success") / else rendering shared by the handlers *)
ShowResult(result) == IF result.success THEN <<"success">> ELSE <<"failure">>

Done(a, render) == [app |-> a, render |-> render]

(* _handle_setup *)
handle_setup(a) == Call("setup", "setup", NoKw, a, <<"starting">>)

handle_setup_done(a, result) ==
    IF result.prompt = "model"
    THEN Done([a EXCEPT !.models = result.available_models,
                        !.setup_step = "model_selection",
                        !.current_command = "setup"], <<"prompt">>)
    ELSE Done(a, ShowResult(result))

(* _handle_models *)
handle_models(a) == Call("models", "models", NoKw, a, <<"starting">>)

handle_models_done(a, result) ==
    IF result.prompt = "model"
    THEN Done([a EXCEPT !.models = result.available_models,
                        !.setup_step = "model_selection",
                        !.current_command = "models"], <<"prompt">>)
    ELSE Done(a, ShowResult(result))

(* _handle_init *)
handle_init(a) == Call("init", "init", NoKw, a, <<"starting">>)

handle_init_done(a, result) ==
    IF result.prompt = "project_path"
    THEN Done([a EXCEPT !.init_waiting_for_path = TRUE], <<"prompt">>)
    ELSE Done(a, ShowResult(result))

(* _handle_clean *)
handle_clean(a) == Call("clean", "clean", NoKw, a, <<"starting">>)

handle_clean_done(a, result) ==
    IF result.prompt = "action"
    THEN Done([a EXCEPT !.clean_waiting_for_action = TRUE], <<"prompt">>)
    ELSE Done(a, ShowResult(result))

(* action_map.get(choice, choice.lower()) of _handle_clean_action *)
action_map(choice) ==
    CASE choice = "1" -> "clean"
      [] choice = "2" -> "stats"
      [] choice = "3" -> "vacuum"
      [] OTHER -> Lower(choice)

(* _handle_clean_action *)
handle_clean_action(a, choice) ==
    IF Strip(choice) = ""
    THEN Local("clean_action", [a EXCEPT !.clean_waiting_for_action = FALSE], <<"cancelled">>)
    ELSE IF a.pending_clean_action # ""
    THEN IF Lower(choice) = "yes"
         THEN Call("clean_confirmed", "clean",
                   [NoKw EXCEPT !.given = {"action"}, !.action = a.pending_clean_action],
                   a, <<"starting">>)
         ELSE Local("clean_action",
                    [a EXCEPT !.pending_clean_action = "", !.clean_waiting_for_action = FALSE],
                    <<"cancelled">>)
    ELSE IF action_map(choice) = "clean"
    THEN Local("clean_action", [a EXCEPT !.pending_clean_action = action_map(choice)],
               <<"warning">>)
    ELSE Call("clean_action", "clean",
              [NoKw EXCEPT !.given = {"action"}, !.action = action_map(choice)], a, <<>>)

handle_clean_confirmed_done(a, result) ==
    Done([a EXCEPT !.pending_clean_action = "", !.clean_waiting_for_action = FALSE],
         ShowResult(result))

(* a reply handler that forgets to leave the waiting state *)
handle_clean_action_done_keeps_waiting(a, result) == Done(a, ShowResult(result))

handle_clean_action_done(a, result) ==
    Done([a EXCEPT !.clean_waiting_for_action = FALSE], ShowResult(result))

(* _handle_commit *)
handle_commit(a) ==
    Wrapped("commit", "commit", NoKw, CommitDuration, CommitCaptions, a, <<"starting">>)

handle_commit_done(a, result) ==
    IF result.prompt = "commit_confirm"
    THEN Done([a EXCEPT !.commit_waiting_for_confirmation = TRUE,
                        !.pending_commit_message = result.commit_message], <<"prompt">>)
    ELSE Done(a, ShowResult(result))

(* a confirmation handler that commits on every reply that is not empty *)
handle_commit_confirmation_commits_on_no(a, text) ==
    IF Strip(Lower(text)) = ""
    THEN Local("commit_confirmation",
               [a EXCEPT !.commit_waiting_for_confirmation = FALSE,
                         !.pending_commit_message = ""], <<"cancelled">>)
    ELSE Call("commit_confirmation", "commit",
              [NoKw EXCEPT !.given = {"action", "commit_message"}, !.action = "execute",
                           !.commit_message = a.pending_commit_message],
              a, <<"starting">>)

(* _handle_commit_confirmation *)
handle_commit_confirmation(a, text) ==
    LET choice == Strip(Lower(text))
        cancelled == [a EXCEPT !.commit_waiting_for_confirmation = FALSE,
                               !.pending_commit_message = ""]
    IN IF choice = "" \/ choice = "no"
       THEN Local("commit_confirmation", cancelled, <<"cancelled">>)
       ELSE IF choice = "yes"
       THEN Call("commit_confirmation", "commit",
                 [NoKw EXCEPT !.given = {"action", "commit_message"}, !.action = "execute",
                              !.commit_message = a.pending_commit_message],
                 a, <<"starting">>)
       ELSE IF choice = "edit"
       THEN Local("commit_confirmation", a, <<"edit">>)
       ELSE IF StartsWith(choice, "edit ") \/ a.pending_commit_message # ""
       THEN LET new_message == IF StartsWith(choice, "edit ")
                               THEN Strip(DropPrefix5(choice)) ELSE choice
            IN IF new_message # ""
               THEN Local("commit_confirmation",
                          [a EXCEPT !.pending_commit_message = new_message], <<"updated">>)
               ELSE Local("commit_confirmation", a, <<"invalid">>)
       ELSE Local("commit_confirmation", a, <<"invalid">>)

handle_commit_confirmation_done(a, result) ==
    Done([a EXCEPT !.commit_waiting_for_confirmation = FALSE, !.pending_commit_message = ""],
         ShowResult(result))

(* _handle_review *)
handle_review(a) ==
    Wrapped("review", "review-changes", NoKw, ReviewDuration, OtherCaptions, a, <<"starting">>)

handle_review_done(a, result) ==
    IF result.prompt = "review_save_confirm"
    THEN Done([a EXCEPT !.review_waiting_for_confirmation = TRUE,
                        !.pending_review_data =
                            [present |-> TRUE, session_id |-> result.session_id]],
              <<"prompt">>)
    ELSE Done(a, ShowResult(result))

(* _handle_review_confirmation *)
handle_review_confirmation(a, text) ==
    LET choice == Strip(Lower(text))
        closed == [a EXCEPT !.review_waiting_for_confirmation = FALSE,
                            !.pending_review_data = NoReviewData]
    IN IF choice = "" \/ choice = "no"
       THEN Local("review_confirmation", closed, <<"discarded">>)
       ELSE IF choice = "yes"
       THEN Local("review_confirmation", closed, <<"saved">>)
       ELSE Local("review_confirmation", a, <<"invalid">>)

(* _handle_explain *)
handle_explain(a) == Call("explain", "explain", NoKw, a, <<"starting">>)

handle_explain_done(a, result) ==
    IF result.prompt = "explain_input"
    THEN Done([a EXCEPT !.explain_waiting_for_input = TRUE,
                        !.explain_input_type = "option"], <<"prompt">>)
    ELSE Done(a, ShowResult(result))

(* _execute_explain_code *)
execute_explain_code(a, code) ==
    Wrapped("explain_run", "explain",
            [NoKw EXCEPT !.given = {"action", "code"}, !.action = "analyze_code", !.code = code],
            ExplainDuration, OtherCaptions, a, <<"starting">>)

(* _execute_explain_file *)
execute_explain_file(a, file_path) ==
    Wrapped("explain_run", "explain",
            [NoKw EXCEPT !.given = {"action", "file_path"}, !.action = "analyze_file",
                         !.file_path = file_path],
            ExplainDuration, OtherCaptions, a, <<"starting">>)

(* _execute_explain_current *)
execute_explain_current(a) ==
    Wrapped("explain_run", "explain",
            [NoKw EXCEPT !.given = {"action"}, !.action = "analyze_current_dir"],
            ExplainDuration, OtherCaptions, a, <<"starting">>)

(* the rendering and the finally block of the three _execute_explain_*     *)
execute_explain_done(a, result) ==
    Done([a EXCEPT !.explain_waiting_for_input = FALSE, !.explain_input_type = ""],
         ShowResult(result))

(* _handle_explain_input *)
handle_explain_input(a, text) ==
    IF Strip(text) = ""
    THEN Local("explain_input",
               [a EXCEPT !.explain_waiting_for_input = FALSE, !.explain_input_type = ""],
               <<"cancelled">>)
    ELSE IF a.explain_input_type = "option"
    THEN IF text \in {"1", "paste"}
         THEN Local("explain_input", [a EXCEPT !.explain_input_type = "code_paste"], <<"ask">>)
         ELSE IF text \in {"2", "file"} \/ StartsWith(text, "file ")
         THEN IF StartsWith(text, "file ")
              THEN execute_explain_file(a, Strip(DropPrefix5(text)))
              ELSE Local("explain_input", [a EXCEPT !.explain_input_type = "file_path"],
                         <<"ask">>)
         ELSE IF text \in {"3", "current"}
         THEN execute_explain_current(a)
         ELSE Local("explain_input", a, <<"invalid">>)
    ELSE IF a.explain_input_type = "code_paste"
    THEN execute_explain_code(a, text)
    ELSE IF a.explain_input_type = "file_path"
    THEN execute_explain_file(a, text)
    ELSE Local("explain_input", a, <<>>)

(* _handle_init_path *)
handle_init_path(a, path) ==
    Wrapped("init_path", "init",
            [NoKw EXCEPT !.given = {"project_path"}, !.project_path = path],
            InitDuration, DefaultCaptions, a, <<"starting">>)

handle_init_path_done(a, result) ==
    Done([a EXCEPT !.init_waiting_for_path = FALSE], ShowResult(result))

(* a model choice without the empty-input check: int("") raises ValueError *)
handle_model_choice_no_cancel(a, choice) ==
    IF ~IsNumber(choice)
    THEN Local("model_choice", a, <<"invalid">>)
    ELSE IF 1 <= IntOf(choice) /\ IntOf(choice) <= Len(a.models)
    THEN Call("model_choice",
              IF a.current_command # "" THEN a.current_command ELSE "setup",
              [NoKw EXCEPT !.given = {"model"}, !.model = a.models[IntOf(choice)]],
              a, <<>>)
    ELSE Local("model_choice", a, <<"invalid">>)

(* a model choice that counts the displayed list from 0 *)
handle_model_choice_from_zero(a, choice) ==
    IF Strip(choice) = ""
    THEN Local("model_choice", reset_state(a), <<"cancelled">>)
    ELSE IF ~IsNumber(choice)
    THEN Local("model_choice", a, <<"invalid">>)
    ELSE IF 0 <= IntOf(choice) /\ IntOf(choice) < Len(a.models)
    THEN Call("model_choice",
              IF a.current_command # "" THEN a.current_command ELSE "setup",
              [NoKw EXCEPT !.given = {"model"}, !.model = a.models[IntOf(choice) + 1]],
              a, <<>>)
    ELSE Local("model_choice", a, <<"invalid">>)

(* _handle_model_choice: int(choice) raises ValueError on a text that is   *)
(* no number, which the handler catches                                    *)
handle_model_choice(a, choice) ==
    IF Strip(choice) = ""
    THEN Local("model_choice", reset_state(a), <<"cancelled">>)
    ELSE IF ~IsNumber(choice)
    THEN Local("model_choice", a, <<"invalid">>)
    ELSE IF 1 <= IntOf(choice) /\ IntOf(choice) <= Len(a.models)
    THEN Call("model_choice",
              IF a.current_command # "" THEN a.current_command ELSE "setup",
              [NoKw EXCEPT !.given = {"model"}, !.model = a.models[IntOf(choice)]],
              a, <<>>)
    ELSE Local("model_choice", a, <<"invalid">>)

handle_model_choice_done(a, result) == Done(reset_state(a), ShowResult(result))

(* a dispatch that looks for a command name before the waiting flags *)
on_input_submitted_commands_first(a, text) ==
    CASE text = "/setup" -> handle_setup(a)
      [] text = "/models" -> handle_models(a)
      [] text = "/init" -> handle_init(a)
      [] text = "/clean" -> handle_clean(a)
      [] text = "/commit" -> handle_commit(a)
      [] text = "/review-changes" -> handle_review(a)
      [] text = "/explain" -> handle_explain(a)
      [] text = "/clear" -> Local("clear", a, <<"cleared">>)
      [] OTHER ->
           IF a.setup_step = "model_selection" THEN handle_model_choice(a, text)
           ELSE IF a.init_waiting_for_path THEN handle_init_path(a, text)
           ELSE IF a.clean_waiting_for_action THEN handle_clean_action(a, text)
           ELSE IF a.commit_waiting_for_confirmation THEN handle_commit_confirmation(a, text)
           ELSE IF a.review_waiting_for_confirmation THEN handle_review_confirmation(a, text)
           ELSE IF a.explain_waiting_for_input THEN handle_explain_input(a, text)
           ELSE IF text # "" THEN Local("unknown", a, <<"unknown">>)
           ELSE Local("none", a, <<>>)

(* on_input_submitted, after text = event.input.value.strip() *)
on_input_submitted(a, text) ==
    IF a.setup_step = "model_selection" THEN handle_model_choice(a, text)
    ELSE IF a.init_waiting_for_path THEN handle_init_path(a, text)
    ELSE IF a.clean_waiting_for_action THEN handle_clean_action(a, text)
    ELSE IF a.commit_waiting_for_confirmation THEN handle_commit_confirmation(a, text)
    ELSE IF a.review_waiting_for_confirmation THEN handle_review_confirmation(a, text)
    ELSE IF a.explain_waiting_for_input THEN handle_explain_input(a, text)
    ELSE CASE text = "/setup" -> handle_setup(a)
           [] text = "/models" -> handle_models(a)
           [] text = "/init" -> handle_init(a)
           [] text = "/clean" -> handle_clean(a)
           [] text = "/commit" -> handle_commit(a)
           [] text = "/review-changes" -> handle_review(a)
           [] text = "/explain" -> handle_explain(a)
           [] text = "/clear" -> Local("clear", a, <<"cleared">>)
           [] OTHER -> IF text # "" THEN Local("unknown", a, <<"unknown">>)
                       ELSE Local("none", a, <<>>)

(* the part of a handler that follows its execute_command call *)
handler_done(handler, a, result) ==
    CASE handler = "setup" -> handle_setup_done(a, result)
      [] handler = "models" -> handle_models_done(a, result)
      [] handler = "init" -> handle_init_done(a, result)
      [] handler = "clean" -> handle_clean_done(a, result)
      [] handler = "clean_confirmed" -> handle_clean_confirmed_done(a, result)
      [] handler = "clean_action" -> handle_clean_action_done(a, result)
      [] handler = "commit" -> handle_commit_done(a, result)
      [] handler = "commit_confirmation" -> handle_commit_confirmation_done(a, result)
      [] handler = "review" -> handle_review_done(a, result)
      [] handler = "explain" -> handle_explain_done(a, result)
      [] handler = "explain_run" -> execute_explain_done(a, result)
      [] handler = "init_path" -> handle_init_path_done(a, result)
      [] handler = "model_choice" -> handle_model_choice_done(a, result)
      [] OTHER -> Done(a, <<>>)

----------------------------------------------------------------------------
(* SpecAgent: one Agent instance driven through its public methods, as     *)
(* test_agent_integration.py and the command bodies do.                    *)

NoAgentCall ==
    [op |-> "none", save |-> FALSE, ai |-> "ok",
     result |-> FailResult("", NoSession), facade |-> NoFacade, arg |-> 0,
     command |-> Outcome(FALSE, "", <<>>), removed |-> 0]

CallRecord(op, arg) == [NoAgentCall EXCEPT !.op = op, !.arg = arg]

StoreInit ==
    /\ sessions = {}
    /\ messages = <<>>
    /\ clock = 0

AgentInit ==
    /\ StoreInit
    /\ current_session = NoSession
    /\ agent_last = NoAgentCall

NoManagerCall ==
    [op |-> "none", command_name |-> "", kw |-> NoKw, raises |-> "none",
     returned |-> CommandReturn(Outcome(FALSE, "", <<>>), {}, <<>>, NoAgent, "none"),
     room |-> TRUE]

NoWork == [handler |-> "", command |-> "", kw |-> NoKw, result |-> Outcome(FALSE, "", <<>>)]

NoAnim == [status |-> "none", elapsed |-> 0, duration |-> 0, message_index |-> 0,
           captions |-> 0]

Turn(text, waiting, handler, calls, animated, render) ==
    [text |-> text, waiting |-> waiting, handler |-> handler, calls |-> calls,
     animated |-> animated, render |-> render, effects |-> <<>>, results |-> <<>>]

(* the progress value is the fraction num / den *)
Fraction(num, den) == [num |-> num, den |-> den]

EngineInit ==
    /\ app = AppInit
    /\ progress = [display |-> FALSE, value |-> Fraction(0, 1)]
    /\ anim = NoAnim
    /\ pc = "idle"
    /\ work = NoWork
    /\ turn = Turn("", {}, "none", <<>>, FALSE, <<>>)
    /\ inbox = <<>>
    /\ manager_last = NoManagerCall

Init == AgentInit /\ EngineInit

StartNewSession(max_sessions) ==
    \E title \in Titles, fails \in BOOLEAN :
        /\ NextId(SessionIds(sessions)) <= max_sessions
        /\ LET r == Agent_start_new_session(sessions, title, clock, fails)
           IN /\ sessions' = r.sessions
              /\ current_session' = IF r.raised THEN current_session ELSE r.id
              /\ agent_last' = CallRecord("start_new_session", r.id)
        /\ UNCHANGED <<messages, clock>>
        /\ UNCHANGED engineVars

(* Agent.load_session *)
LoadSession(max_sessions) ==
    \E session_id \in 1..max_sessions :
        /\ current_session' = IF session_id \in SessionIds(sessions)
                              THEN session_id ELSE current_session
        /\ agent_last' = CallRecord("load_session", 0)
        /\ UNCHANGED <<sessions, messages, clock>>
        /\ UNCHANGED engineVars

AgentCallRecord(op, save, ai, r) ==
    [CallRecord(op, 0) EXCEPT !.save = save, !.ai = ai,
                              !.result = r.result, !.facade = r.facade]

SendGuard(save, dt) ==
    /\ save => NextId(MessageIds(messages)) + 1 <= MaxMessages
    /\ (save /\ current_session = NoSession) => NextId(SessionIds(sessions)) <= MaxSessions
    /\ clock + dt <= MaxClock

(* the failure points a call with these inputs passes through *)
CanFailAt(save, ai, dbf) ==
    /\ ~save => dbf = "none"
    /\ (save /\ current_session # NoSession) => dbf # "create"
    /\ ai = "error" => dbf \in {"none", "create"}
    /\ dbf # "update"

SendMessage ==
    \E message \in UserTexts, save \in BOOLEAN, ai \in AIOutcomes,
       dbf \in AgentFailPoints, dt \in 0..1 :
        /\ SendGuard(save, dt)
        /\ CanFailAt(save, ai, dbf)
        /\ LET r == Agent_send_message(sessions, messages, current_session,
                                       message, save, ai, dbf, clock, clock + dt)
           IN /\ sessions' = r.sessions
              /\ messages' = r.messages
              /\ current_session' = r.cur
              /\ agent_last' = AgentCallRecord("send_message", save, ai, r)
        /\ clock' = clock + dt
        /\ UNCHANGED engineVars

SendSystemMessage ==
    \E system_prompt \in SystemPrompts, user_message \in {"hello"}, save \in BOOLEAN,
       ai \in AIOutcomes, dbf \in AgentFailPoints, dt \in 0..1 :
        /\ SendGuard(save, dt)
        /\ CanFailAt(save, ai, dbf)
        /\ LET r == Agent_send_system_message(sessions, messages, current_session,
                                              system_prompt, user_message, save, ai, dbf,
                                              clock, clock + dt)
           IN /\ sessions' = r.sessions
              /\ messages' = r.messages
              /\ current_session' = r.cur
              /\ agent_last' = AgentCallRecord("send_system_message", save, ai, r)
        /\ clock' = clock + dt
        /\ UNCHANGED engineVars

DeleteSession ==
    \E session_id \in 1..MaxSessions, fails \in BOOLEAN :
        LET r == Agent_delete_session(sessions, messages, current_session, session_id, fails)
        IN /\ sessions' = r.sessions
           /\ messages' = r.messages
           /\ current_session' = r.cur
           /\ agent_last' = [CallRecord("delete_session", session_id) EXCEPT
                                !.result = [FailResult(IF fails THEN DbErrorText ELSE "", NoSession)
                                               EXCEPT !.success = r.returned],
                                !.removed = Len(messages) - Len(r.messages)]
           /\ UNCHANGED clock
           /\ UNCHANGED engineVars

(* the envs under which one invocation of a command can run *)
MayUseAgent(command_name, kw) ==
    \/ command_name = "commit" /\ ~(Lower(kw.action) = "execute" /\ kw.commit_message # "")
    \/ command_name = "review-changes"
    \/ command_name = "init" /\ kw.project_path # ""
    \/ command_name = "explain" /\ kw.action = "analyze_code" /\ kw.code # ""
    \/ command_name = "explain" /\ kw.action = "analyze_file" /\ kw.file_path # ""
    \/ command_name = "explain" /\ kw.action = "analyze_current_dir"
    \/ command_name = "unknown" /\ Strip(kw.text) # ""

HasRoom(S, M, max_sessions, max_messages) ==
    /\ NextId(SessionIds(S)) <= max_sessions
    /\ NextId(MessageIds(M)) + 1 <= max_messages

EnvsFor(command_name, kw, room) ==
    {e \in Envs :
        /\ e.raises = "none"
        /\ e.pre = "fail" => (e.ai = "ok" /\ e.dbf = "none")
        /\ IF MayUseAgent(command_name, kw)
           THEN IF room
                THEN e.pre = "ok" =>
                        /\ e.dbf \in AgentFailPoints
                        /\ e.ai = "error" => e.dbf = "none"
                        /\ e.dbf = "create" => e.ai = "ok"
                ELSE e.pre = "fail"
           ELSE IF command_name = "models" /\ kw.model # ""
           THEN e.ai = "ok" /\ e.dbf \in {"none", "update"}
           ELSE e.ai = "ok" /\ e.dbf = "none"}

CommandReturned(env, r) ==
    /\ sessions' = r.sessions
    /\ messages' = r.messages
    /\ agent_last' = [CallRecord("commit_command", 0) EXCEPT
                         !.save = r.agent.used, !.ai = env.ai,
                         !.result = r.agent.result, !.facade = r.agent.facade,
                         !.command = r.result]

(* a commit command run on the store beside the driven Agent; it builds    *)
(* an Agent of its own                                                     *)
CommitCommand ==
    \E env \in EnvsFor("commit", NoKw, HasRoom(sessions, messages, MaxSessions, MaxMessages)) :
        /\ CommandReturned(env, execute_command("commit", NoKw, env, sessions, messages, clock))
        /\ UNCHANGED <<clock, current_session>>
        /\ UNCHANGED engineVars

AgentNext ==
    \/ StartNewSession(MaxSessions)
    \/ LoadSession(MaxSessions)
    \/ SendMessage
    \/ SendSystemMessage
    \/ CommitCommand

SpecAgent == Init /\ [][AgentNext]_vars

(* Agent.get_user_sessions: ORDER BY updated_at DESC LIMIT limit leaves    *)
(* the order of rows with equal updated_at open, and NULL sorts last: the  *)
(* sets of rows a call may return                                          *)
get_user_sessions(S, n) ==
    {R \in SUBSET S :
        /\ Cardinality(R) = IF Cardinality(S) < n THEN Cardinality(S) ELSE n
        /\ \A r \in R, s \in S \ R : r.updated_at >= s.updated_at}

(* the default of get_user_sessions(limit) *)
limit == 10

MaxListed == 11

(* sessions started and loaded until more exist than one listing returns *)
SpecListing ==
    Init /\ [][StartNewSession(MaxListed) \/ LoadSession(MaxListed)]_vars

(* the Agent facade with delete_session among its operations *)
SpecStore == Init /\ [][AgentNext \/ DeleteSession]_vars

----------------------------------------------------------------------------
(* SpecManager: the registry called by name, with a handler that returns   *)
(* or raises                                                               *)

(* await command_manager.execute_command(command_name, **kw) *)
ExecuteCommand ==
    \E command_name \in {"commit", "COMMIT", " commit ", "clean", "models", "unknown",
                          "read_file", "Read_File", "bogus", ""} :
      \E kw \in CASE Strip(Lower(command_name)) = "commit" ->
                      {NoKw, [NoKw EXCEPT !.action = "execute", !.commit_message = "Fix Bug"]}
                 [] Strip(Lower(command_name)) = "clean" ->
                      {NoKw, [NoKw EXCEPT !.action = "clean"]}
                 [] Strip(Lower(command_name)) = "models" ->
                      {NoKw, [NoKw EXCEPT !.model = get_available_models[1]]}
                 [] Strip(Lower(command_name)) = "unknown" ->
                      {NoKw, [NoKw EXCEPT !.text = "hello"]}
                 [] OTHER -> {NoKw},
         raises \in IF Strip(Lower(command_name)) \in SeqToSet(get_available_commands)
                    THEN {"none", "get_db", "constructor", "execute"} ELSE {"none"} :
       \E e \in EnvsFor(Strip(Lower(command_name)), kw,
                         HasRoom(sessions, messages, MaxSessions, MaxMessages)) :
        \E env \in {[e EXCEPT !.raises = raises]} :
        /\ Strip(Lower(command_name)) \notin SeqToSet(get_available_commands) => e.pre = "ok"
        /\ raises \in {"get_db", "constructor"} => (e.pre = "ok" /\ e.ai = "ok" /\ e.dbf = "none")
        /\ manager_last' =
               [op |-> "execute_command", command_name |-> command_name, kw |-> kw,
                raises |-> env.raises,
                returned |-> execute_command(command_name, kw, env, sessions, messages, clock),
                room |-> HasRoom(sessions, messages, MaxSessions, MaxMessages)]
        /\ sessions' = manager_last'.returned.sessions
        /\ messages' = manager_last'.returned.messages
        /\ UNCHANGED <<clock, current_session, agent_last>>
        /\ UNCHANGED <<app, progress, anim, pc, work, turn, inbox>>

SpecManager == Init /\ [][ExecuteCommand]_vars

----------------------------------------------------------------------------
(* Spec: the engine driven by submitted lines *)

WaitingKinds ==
    {"model_selection", "init_path", "clean_action", "commit_confirmation",
     "review_confirmation", "explain_input"}

(* the waiting conditions on_input_submitted tests *)
Waiting(a) ==
    {k \in WaitingKinds :
        \/ k = "model_selection" /\ a.setup_step = "model_selection"
        \/ k = "init_path" /\ a.init_waiting_for_path
        \/ k = "clean_action" /\ a.clean_waiting_for_action
        \/ k = "commit_confirmation" /\ a.commit_waiting_for_confirmation
        \/ k = "review_confirmation" /\ a.review_waiting_for_confirmation
        \/ k = "explain_input" /\ a.explain_waiting_for_input}

CommandLines ==
    {"/setup", "/models", "/init", "/clean", "/commit", "/review-changes", "/explain", "/clear"}

(* the lines submitted in a state: the replies its prompt distinguishes,   *)
(* blank lines and command names                                           *)
InputLines(a) ==
    {"", " ", "/commit", "/clean", "/clear"} \cup
    (IF Waiting(a) = {} THEN CommandLines \cup {"hello", "/COMMIT", " /commit "} ELSE {}) \cup
    (IF a.setup_step = "model_selection" THEN {"1", "2", "5", "0", "hello"} ELSE {}) \cup
    (IF a.init_waiting_for_path THEN {".", "main.py"} ELSE {}) \cup
    (IF a.clean_waiting_for_action
     THEN {"1", "2", "3", "clean", "stats", "yes", "YES", "no", "hello"} ELSE {}) \cup
    (IF a.commit_waiting_for_confirmation
     THEN {"yes", "YES", "no", "edit", "edit Fix Bug", "Fix Bug"} ELSE {}) \cup
    (IF a.review_waiting_for_confirmation THEN {"yes", "YES", "no", "hello"} ELSE {}) \cup
    (IF a.explain_waiting_for_input
     THEN {"1", "2", "3", "paste", "file", "file main.py", "main.py", "current", "hello", "5"}
     ELSE {})

CallOf(plan) == [name |-> plan.command, kw |-> plan.kw]

RunLocal(text, plan) ==
    /\ plan.kind = "local"
    /\ app' = plan.app
    /\ turn' = Turn(text, Waiting(app), plan.handler, <<>>, FALSE, plan.render)

(* a dispatch that does not wait for the running handler *)
pump_always_ready(p) == p # "exited"

(* the app dispatches a message to its handler and awaits the handler: the *)
(* next message is taken when on_input_submitted (or the action) has       *)
(* returned.  on_input_submitted awaits its handlers inline and every      *)
(* handler awaits the command task it creates.                             *)
pump_ready(p) == p = "idle"

(* on_input_submitted, for a line whose handler calls nothing *)
Submit ==
    /\ pump_ready(pc)
    /\ \E raw \in InputLines(app) : RunLocal(Strip(raw), on_input_submitted(app, Strip(raw)))
    /\ UNCHANGED <<sessions, messages, clock, current_session, agent_last, manager_last>>
    /\ UNCHANGED <<progress, anim, pc, work, inbox>>

(* what the handler reads of the returned dictionary, result.get("success") *)
(* and result.get("prompt"), and the model its data names                   *)
Returned(result) ==
    [success |-> result.success, prompt |-> result.prompt, model |-> result.model]

HandlerResumed(text, plan, r, d) ==
    /\ app' = d.app
    /\ turn' = [Turn(text, Waiting(app), plan.handler, <<CallOf(plan)>>, FALSE,
                     plan.render \o d.render)
                   EXCEPT !.effects = <<r.effect>>, !.results = <<Returned(r.result)>>]

CallReturned(text, plan, r) ==
    /\ sessions' = r.sessions
    /\ messages' = r.messages
    /\ HandlerResumed(text, plan, r, handler_done(plan.handler, plan.app, r.result))

RunCall(text, plan) ==
    /\ plan.kind = "call"
    /\ \E env \in EnvsFor(plan.command, plan.kw,
                          HasRoom(sessions, messages, MaxAppSessions, MaxAppMessages)) :
          CallReturned(text, plan,
                       execute_command(plan.command, plan.kw, env, sessions, messages, clock))

(* on_input_submitted, for a line whose handler awaits execute_command     *)
(* without a progress bar                                                  *)
SubmitAndCall ==
    /\ pump_ready(pc)
    /\ \E raw \in InputLines(app) : RunCall(Strip(raw), on_input_submitted(app, Strip(raw)))
    /\ UNCHANGED <<clock, current_session, agent_last, manager_last>>
    /\ UNCHANGED <<progress, anim, pc, work, inbox>>

RunWrapped(text, plan) ==
    /\ plan.kind = "wrapped"
    /\ app' = plan.app
    /\ progress' = [progress EXCEPT !.display = TRUE]
    /\ anim' = [status |-> "created", elapsed |-> 0, duration |-> plan.duration,
                message_index |-> 0, captions |-> plan.captions]
    /\ work' = [NoWork EXCEPT !.handler = plan.handler, !.command = plan.command,
                              !.kw = plan.kw]
    /\ turn' = Turn(text, Waiting(app), plan.handler, <<CallOf(plan)>>, TRUE, plan.render)

(* on_input_submitted, for a line whose handler wraps execute_command in   *)
(* the progress bar: _show_progress, the animation task and the command    *)
(* task are created and the handler awaits the command task                *)
SubmitAndStart ==
    /\ pump_ready(pc)
    /\ \E raw \in InputLines(app) : RunWrapped(Strip(raw), on_input_submitted(app, Strip(raw)))
    /\ pc' = "running"
    /\ UNCHANGED <<sessions, messages, clock, current_session, agent_last, manager_last, inbox>>

(* progress_value = min(95, (elapsed / duration) * 100) *)
progress_value(elapsed, duration) ==
    IF elapsed * 100 > 95 * duration THEN Fraction(95, 1) ELSE Fraction(elapsed * 100, duration)

(* one pass of _animate_progress between two awaits: the first pass starts *)
(* the loop, a later one resumes after asyncio.sleep(step); when the loop  *)
(* condition fails the task writes 100 and ends                            *)
AnimStep ==
    /\ pc = "running"
    /\ anim.status \in {"created", "sleeping"}
    /\ LET elapsed == IF anim.status = "created" THEN 0 ELSE anim.elapsed + step
       IN IF elapsed < anim.duration
          THEN /\ progress' = [progress EXCEPT !.value = progress_value(elapsed, anim.duration)]
               /\ anim' = [anim EXCEPT
                             !.status = "sleeping", !.elapsed = elapsed,
                             !.message_index =
                                 IF elapsed > 0 /\ elapsed % message_period = 0
                                 THEN (@ + 1) % anim.captions ELSE @]
          ELSE /\ progress' = [progress EXCEPT !.value = Fraction(100, 1)]
               /\ anim' = [anim EXCEPT !.status = "finished", !.elapsed = elapsed]
    /\ UNCHANGED <<sessions, messages, clock, current_session, agent_last, manager_last>>
    /\ UNCHANGED <<app, pc, work, turn, inbox>>

WorkReturned(r) ==
    /\ sessions' = r.sessions
    /\ messages' = r.messages
    /\ work' = [work EXCEPT !.result = r.result]
    /\ turn' = [turn EXCEPT !.effects = <<r.effect>>, !.results = <<Returned(r.result)>>]

(* the command task completes: the handler cancels the animation task and  *)
(* writes 100, then sleeps.  A task that has not run yet is created before *)
(* the command task and runs its first pass before it.  progress_task      *)
(* .cancel() on a task that has ended does nothing; on a sleeping task it  *)
(* requests the cancellation, delivered when the task is next scheduled.   *)
WorkComplete ==
    /\ pc = "running"
    /\ anim.status # "created"
    /\ \E env \in EnvsFor(work.command, work.kw,
                           HasRoom(sessions, messages, MaxAppSessions, MaxAppMessages)) :
          WorkReturned(execute_command(work.command, work.kw, env, sessions, messages, clock))
    /\ progress' = [progress EXCEPT !.value = Fraction(100, 1)]
    /\ anim' = [NoAnim EXCEPT !.status = IF anim.status = "finished"
                                         THEN "finished" ELSE "cancelling"]
    /\ pc' = "completing"
    /\ UNCHANGED <<clock, current_session, agent_last, manager_last, app, inbox>>

(* a cancelled animation task that runs one more pass of its loop *)
on_cancelled_writes(a, p, w) ==
    [anim |-> [a EXCEPT !.status = "cancelled", !.message_index = @ + 1],
     progress |-> [p EXCEPT !.value = Fraction(95, 1)], work |-> w]

(* a cancellation that reaches the command task as well *)
on_cancelled_drops_work(a, p, w) ==
    [anim |-> [a EXCEPT !.status = "cancelled"], progress |-> p,
     work |-> [w EXCEPT !.result = Outcome(FALSE, "", <<"cancelled">>)]]

(* except asyncio.CancelledError: pass.  The cancelled animation task ends *)
(* where it slept: it writes no value and no caption and touches nothing   *)
(* of the command task.                                                    *)
on_cancelled(a, p, w) ==
    [anim |-> [a EXCEPT !.status = "cancelled"], progress |-> p, work |-> w]

AnimEnded(r) ==
    /\ anim' = r.anim
    /\ progress' = r.progress
    /\ work' = r.work

(* the cancelled animation task is scheduled during the handler's pause *)
AnimCancelled ==
    /\ pc = "completing"
    /\ anim.status = "cancelling"
    /\ AnimEnded(on_cancelled(anim, progress, work))
    /\ UNCHANGED <<sessions, messages, clock, current_session, agent_last, manager_last>>
    /\ UNCHANGED <<app, pc, turn, inbox>>

Rendered(d) ==
    /\ app' = d.app
    /\ turn' = [turn EXCEPT !.render = @ \o d.render]

(* the handler resumes after its pause: _hide_progress, the rendering of   *)
(* the result and the state reset                                          *)
Finish ==
    /\ pc = "completing"
    /\ anim.status # "cancelling"
    /\ Rendered(handler_done(work.handler, app, work.result))
    /\ progress' = [progress EXCEPT !.display = FALSE]
    /\ pc' = "idle"
    /\ work' = NoWork
    /\ UNCHANGED <<sessions, messages, clock, current_session, agent_last, manager_last, anim, inbox>>

Next ==
    \/ Submit
    \/ SubmitAndCall
    \/ SubmitAndStart
    \/ AnimStep
    \/ WorkComplete
    \/ AnimCancelled
    \/ Finish

Spec == Init /\ [][Next]_vars

----------------------------------------------------------------------------
(* SpecPump: the engine fed through the queue of posted messages, so that  *)
(* lines and the ctrl+c binding arrive while a handler is in flight        *)

MaxInbox == 1

Line(value) == [kind |-> "Input.Submitted", value |-> value]
Key(value) == [kind |-> "Key", value |-> value]

PumpMessages == {Line("/commit"), Line("yes"), Line(""), Key("ctrl+c")}

(* the user submits a line or presses ctrl+c; the message waits its turn *)
Post ==
    /\ pc # "exited"
    /\ Len(inbox) < MaxInbox
    /\ \E m \in PumpMessages : inbox' = Append(inbox, m)
    /\ UNCHANGED <<sessions, messages, clock, current_session, agent_last, manager_last>>
    /\ UNCHANGED <<app, progress, anim, pc, work, turn>>

Taken(kind) ==
    /\ inbox # <<>>
    /\ Head(inbox).kind = kind
    /\ inbox' = Tail(inbox)

(* the three ways on_input_submitted proceeds, for the posted line *)
Dispatch ==
    /\ pump_ready(pc)
    /\ Taken("Input.Submitted")
    /\ RunLocal(Strip(Head(inbox).value), on_input_submitted(app, Strip(Head(inbox).value)))
    /\ UNCHANGED <<sessions, messages, clock, current_session, agent_last, manager_last>>
    /\ UNCHANGED <<progress, anim, pc, work>>

DispatchAndCall ==
    /\ pump_ready(pc)
    /\ Taken("Input.Submitted")
    /\ RunCall(Strip(Head(inbox).value), on_input_submitted(app, Strip(Head(inbox).value)))
    /\ UNCHANGED <<clock, current_session, agent_last, manager_last>>
    /\ UNCHANGED <<progress, anim, pc, work>>

DispatchAndStart ==
    /\ pump_ready(pc)
    /\ Taken("Input.Submitted")
    /\ RunWrapped(Strip(Head(inbox).value), on_input_submitted(app, Strip(Head(inbox).value)))
    /\ pc' = "running"
    /\ UNCHANGED <<sessions, messages, clock, current_session, agent_last, manager_last>>

(* clean_database: every table is dropped and created again, or the error  *)
(* is returned as text                                                     *)
clean_database(S, M, ok) ==
    IF ok THEN [sessions |-> {}, messages |-> <<>>, text |-> "Database cleaned successfully!"]
    ELSE [sessions |-> S, messages |-> M, text |-> "Error cleaning database"]

Cleaned(r) ==
    /\ sessions' = r.sessions
    /\ messages' = r.messages
    /\ turn' = [Turn("ctrl+c", Waiting(app), "cleanup_and_quit", <<>>, FALSE,
                     <<"cleaning", r.text>>)
                   EXCEPT !.effects = <<"clean_database">>]

(* action_cleanup_and_quit, bound to ctrl+c *)
CleanupAndQuit ==
    /\ pump_ready(pc)
    /\ Taken("Key")
    /\ \E ok \in BOOLEAN : Cleaned(clean_database(sessions, messages, ok))
    /\ pc' = "exited"
    /\ UNCHANGED <<clock, current_session, agent_last, manager_last>>
    /\ UNCHANGED <<app, progress, anim, work>>

PumpNext ==
    \/ Post
    \/ Dispatch
    \/ DispatchAndCall
    \/ DispatchAndStart
    \/ CleanupAndQuit
    \/ AnimStep
    \/ WorkComplete
    \/ AnimCancelled
    \/ Finish

SpecPump == Init /\ [][PumpNext]_vars

----------------------------------------------------------------------------
(* Properties of the Session Agent, checked under SpecAgent *)

IsSend(r) == r.op \in {"send_message", "send_system_message"}

(* the Messages of a session in the order they were appended (ids grow) *)
RECURSIVE ByAppendOrder(_, _)
ByAppendOrder(M, ids) ==
    IF ids = {} THEN <<>>
    ELSE LET lo == CHOOSE x \in ids : \A y \in ids : x <= y
             row == CHOOSE m \in {M[i] : i \in DOMAIN M} : m.id = lo
         IN <<row>> \o ByAppendOrder(M, ids \ {lo})

LogOf(M, sid) ==
    ByAppendOrder(M, {M[i].id : i \in {j \in DOMAIN M : M[j].session_id = sid}})

TurnsOf(M, sid) ==
    LET log == LogOf(M, sid)
    IN [i \in 1..Len(log) |-> [role |-> log[i].role, content |-> log[i].content]]

(* C5: a send with save_to_db=true that returns success=true appended     *)
(* exactly two Messages to the current session, a user Message directly    *)
(* followed by an assistant Message, both committed when it returns.       *)
C5_SuccessAppendsExchange ==
    [][(IsSend(agent_last') /\ agent_last'.save /\ agent_last'.result.success) =>
          LET n == Len(messages)
              sid == agent_last'.result.session_id
          IN /\ Len(messages') = n + 2
             /\ SubSeq(messages', 1, n) = messages
             /\ sid # NoSession /\ sid = current_session' /\ sid \in SessionIds(sessions')
             /\ messages'[n + 1].role = "user" /\ messages'[n + 1].session_id = sid
             /\ messages'[n + 2].role = "assistant" /\ messages'[n + 2].session_id = sid
             /\ messages'[n + 2].content = agent_last'.result.response
             /\ LET log == LogOf(messages', sid)
                IN /\ Len(log) >= 2
                   /\ log[Len(log) - 1] = messages'[n + 1]
                   /\ log[Len(log)] = messages'[n + 2]
      ]_agentVars

C5_Witness ==
    /\ IsSend(agent_last) /\ agent_last.save /\ agent_last.result.success
    /\ Len(messages) = 3
    /\ messages[2].role = "user" /\ messages[3].role = "assistant"

(* C7: no call leaves its user Message in the log without the assistant    *)
(* Message: a call appends nothing or the whole exchange.                  *)
C7_NoPartialWrite ==
    [][IsSend(agent_last') =>
          \/ messages' = messages
          \/ /\ Len(messages') = Len(messages) + 2
             /\ messages'[Len(messages) + 1].role = "user"
             /\ messages'[Len(messages) + 2].role = "assistant"
      ]_agentVars

C9_SystemMessageReplaysHistory ==
    [][(agent_last'.op = "send_system_message" /\ agent_last'.facade.called) =>
          agent_last'.facade.conversation_history
              = TurnsOf(messages, agent_last'.result.session_id)
      ]_agentVars

(* C6: when the AI call fails inside send_message or send_system_message,  *)
(* the Message log is what it was before the call and the agent returns    *)
(* success=false with the error text; a commit command built on the call   *)
(* returns success=false with a message that contains the error text.      *)
C6_AIFailureLeavesLogUnchanged ==
    [][(agent_last'.facade.called /\ agent_last'.ai = "error") =>
          /\ messages' = messages
          /\ ~agent_last'.result.success
          /\ agent_last'.result.error = AIErrorText
          /\ agent_last'.op = "commit_command" =>
                /\ ~agent_last'.command.success
                /\ agent_last'.command.prompt = ""
                /\ Contains(agent_last'.command.message, AIErrorText)
      ]_agentVars

C6_Witness ==
    /\ IsSend(agent_last)
    /\ agent_last.facade.called /\ agent_last.ai = "error"
    /\ ~agent_last.result.success
    /\ Len(messages) >= 2

----------------------------------------------------------------------------
(* Properties of the engine, checked under Spec *)

(* the handlers on_input_submitted reaches for a waiting condition *)
ReplyHandlers(k) ==
    CASE k = "model_selection" -> {"model_choice"}
      [] k = "init_path" -> {"init_path"}
      [] k = "clean_action" -> {"clean_action", "clean_confirmed"}
      [] k = "commit_confirmation" -> {"commit_confirmation"}
      [] k = "review_confirmation" -> {"review_confirmation"}
      [] k = "explain_input" -> {"explain_input", "explain_run"}
      [] OTHER -> {}

(* C1: when on_input_submitted has finished a line, at most one of the six *)
(* waiting conditions is true.                                             *)
C1_AtMostOneWaiting ==
    pc = "idle" => Cardinality(Waiting(app)) <= 1

C1_Witness ==
    /\ pc = "idle"
    /\ turn.waiting = {"commit_confirmation"} /\ turn.text = "/clean"
    /\ Waiting(app) = {"commit_confirmation"}

(* C2: an empty line submitted in a waiting state leaves the engine with   *)
(* no waiting condition when its processing ends.                          *)
C2_EmptyLineReturnsToIdle ==
    (pc = "idle" /\ turn.waiting # {} /\ turn.text = "") => Waiting(app) = {}

C2_Witness ==
    /\ pc = "idle"
    /\ turn.waiting = {"init_path"} /\ turn.text = "" /\ turn.animated
    /\ Waiting(app) = {}

(* C3: the processing of an empty line submitted in a waiting state calls  *)
(* execute_command never and starts no progress animation.                 *)
C3_EmptyLineCallsNothing ==
    (turn.waiting # {} /\ turn.text = "") => (turn.calls = <<>> /\ ~turn.animated)

(* C4: a line submitted while a waiting condition holds is handled by the  *)
(* reply handler of that condition, whatever its text: no command is       *)
(* started by it and no other waiting condition becomes true.              *)
C4_RepliesGoToPendingPrompt ==
    turn.waiting # {} =>
        /\ \A k \in turn.waiting : turn.handler \in ReplyHandlers(k)
        /\ \A i \in DOMAIN turn.calls : turn.calls[i].kw.given # {}
        /\ Waiting(app) \subseteq turn.waiting

C4_Witness ==
    /\ pc = "idle"
    /\ turn.waiting = {"clean_action"} /\ turn.text = "/commit"
    /\ turn.handler = "clean_action" /\ Len(turn.calls) = 1

(* the progress value is greater than 95 *)
Exceeds95(value) == value.num > 95 * value.den

----------------------------------------------------------------------------
(* Properties of the progress wrapper, checked under Spec *)

(* C11: for every progress-wrapped call, whatever the result of the work,  *)
(* the work completes, then the animation task is cancelled and 100 is     *)
(* written, then the indicator is hidden; the value is 100 when it is      *)
(* hidden and the cancelled animation writes no value and no caption.      *)
C11_CompletionOrder ==
    [][/\ (pc = "running" /\ pc' = "completing") =>
              /\ anim'.status \in {"cancelling", "finished"}
              /\ progress'.value = Fraction(100, 1)
              /\ progress'.display
       /\ (pc = "completing" /\ pc' = "completing") =>
              /\ anim.status = "cancelling" /\ anim'.status = "cancelled"
              /\ progress' = progress
              /\ anim'.message_index = anim.message_index
       /\ (progress.display /\ ~progress'.display) =>
              /\ pc = "completing" /\ pc' = "idle"
              /\ anim.status \in {"cancelled", "finished"}
              /\ progress.value = Fraction(100, 1)
       /\ (pc = "completing" /\ pc' # "completing") => ~progress'.display]_vars

C11_Witness ==
    /\ pc = "idle" /\ turn.animated
    /\ anim.status = "cancelled"
    /\ ~progress.display /\ progress.value = Fraction(100, 1)
    /\ Contains(turn.render, "failure")

----------------------------------------------------------------------------
(* Properties of the message dispatch, checked under SpecPump *)

----------------------------------------------------------------------------
(* Properties of the replies, checked under Spec *)

(* C14: every execute_command call that can reach the AI is made inside    *)
(* the progress wrapper (indicator shown, animation task started).         *)
C14_AICallsAreWrapped ==
    \A i \in DOMAIN turn.calls :
        MayUseAgent(turn.calls[i].name, turn.calls[i].kw) => turn.animated

(* C15: in the commit confirmation state with a pending draft, a reply     *)
(* "edit <text>", or any non-empty reply other than yes, no and edit,      *)
(* makes the supplied text the pending draft, keeps the state and calls    *)
(* no command.                                                             *)
C15_RevisionReplacesDraft ==
    [][(/\ pc = "idle"
        /\ Waiting(app) = {"commit_confirmation"}
        /\ app.pending_commit_message # ""
        /\ turn' # turn
        /\ turn'.text # ""
        /\ Lower(turn'.text) \notin {"yes", "no", "edit"}) =>
          (/\ app'.pending_commit_message =
                  (IF StartsWith(turn'.text, "edit ")
                   THEN DropPrefix5(turn'.text) ELSE turn'.text)
           /\ app'.commit_waiting_for_confirmation
           /\ turn'.calls = <<>>
           /\ pc' = "idle")]_vars

(* C16: a git commit is executed only by a reply yes in the commit         *)
(* confirmation state; a reply no or an empty reply there clears the       *)
(* draft, returns to Idle and calls no command.                            *)
C16_CommitOnlyOnYes ==
    /\ Contains(turn.effects, "git_commit") =>
          (turn.waiting = {"commit_confirmation"} /\ Lower(turn.text) = "yes")
    /\ (turn.waiting = {"commit_confirmation"} /\ Lower(turn.text) \in {"", "no"}) =>
          (/\ turn.calls = <<>>
           /\ app.pending_commit_message = ""
           /\ Waiting(app) = {}
           /\ pc = "idle")

C16_Witness ==
    /\ Contains(turn.effects, "git_commit")
    /\ turn.text = "YES"
    /\ Waiting(app) = {}

(* C17: a reply yes in the commit confirmation state makes one call to the *)
(* commit command, which executes the git commit with the stored draft and *)
(* takes no path to the AI, for every draft, the empty one included.       *)
C17_YesCommitsTheDraft ==
    (turn.waiting = {"commit_confirmation"} /\ Lower(turn.text) = "yes") =>
        (/\ Len(turn.calls) = 1
         /\ turn.calls[1].name = "commit"
         /\ Lower(turn.calls[1].kw.action) = "execute"
         /\ ~MayUseAgent("commit", turn.calls[1].kw))

(* C18: a non-empty reply consumed in AwaitingReply (a model number, yes   *)
(* to the commit or the review prompt, current to the explain prompt)      *)
(* makes exactly one execute_command call, to the command that issued the  *)
(* pending prompt.                                                         *)
C18_ReplyCallsBackOnce ==
    /\ (turn.waiting = {"model_selection"} /\ turn.text = "1") =>
          (Len(turn.calls) = 1 /\ turn.calls[1].name \in {"setup", "models"})
    /\ (turn.waiting = {"commit_confirmation"} /\ Lower(turn.text) = "yes") =>
          (Len(turn.calls) = 1 /\ turn.calls[1].name = "commit")
    /\ (turn.waiting = {"review_confirmation"} /\ Lower(turn.text) = "yes") =>
          (Len(turn.calls) = 1 /\ turn.calls[1].name = "review-changes")
    /\ (turn.waiting = {"explain_input"} /\ turn.text \in {"3", "current"}) =>
          (Len(turn.calls) = 1 /\ turn.calls[1].name = "explain")

(* C19: when the command called for a model-selection reply or for an init *)
(* project-path reply returns a dictionary carrying a prompt, the engine   *)
(* is still waiting for a reply when the line has been processed and has   *)
(* not rendered a failure.                                                 *)
C19_ContinuationKeepsWaiting ==
    (/\ pc = "idle"
     /\ turn.waiting # {} /\ turn.waiting \subseteq {"model_selection", "init_path"}
     /\ turn.results # <<>> /\ turn.results[1].prompt # "") =>
        (Waiting(app) # {} /\ ~Contains(turn.render, "failure"))

(* C20: when a command call made from Idle or from a waiting state returns *)
(* success=false without a prompt, the failure is rendered and no waiting  *)
(* condition holds once the line has been processed.                       *)
C20_FailureReturnsToIdle ==
    (/\ pc = "idle"
     /\ turn.results # <<>>
     /\ ~turn.results[1].success /\ turn.results[1].prompt = "") =>
        (Waiting(app) = {} /\ Contains(turn.render, "failure"))

C20_Witness ==
    /\ pc = "idle"
    /\ turn.waiting = {"explain_input"} /\ turn.animated
    /\ turn.results # <<>>
    /\ ~turn.results[1].success /\ turn.results[1].prompt = ""
    /\ Waiting(app) = {} /\ Contains(turn.render, "failure")

----------------------------------------------------------------------------
(* Properties of the Command Registry, checked under SpecManager, and of   *)
(* the dispatch to it, checked under Spec                                  *)

(* C21: execute_command never raises: for every name and every handler     *)
(* behaviour (it returns, or get_db, the constructor or execute raises)    *)
(* the caller gets a dictionary, and when something was raised that        *)
(* dictionary has success = false and a message that carries the error.    *)
C21_ExecuteCommandNeverRaises ==
    manager_last.op = "execute_command" =>
        /\ manager_last.returned.raised = ""
        /\ manager_last.raises # "none" =>
               /\ ~manager_last.returned.result.success
               /\ manager_last.returned.result.message =
                      <<"Error executing command: ", manager_last.raises>>

C21_Witness ==
    /\ manager_last.op = "execute_command"
    /\ manager_last.command_name = " commit "
    /\ manager_last.raises = "execute"
    /\ ~manager_last.returned.result.success
    /\ sessions # {}

(* C24: a name that is not a registered command gets success = false and a *)
(* payload that lists exactly the registered names, those                  *)
(* get_available_commands returns, and nothing is raised.                  *)
C24_NotFoundListsRegistered ==
    (/\ manager_last.op = "execute_command"
     /\ Strip(Lower(manager_last.command_name)) \notin SeqToSet(get_available_commands)) =>
        /\ manager_last.returned.raised = ""
        /\ ~manager_last.returned.result.success
        /\ manager_last.returned.result.available_commands = get_available_commands

(* C25: dispatch ignores case and surrounding blanks, in the registry and   *)
(* in the engine's own dispatch of '/<name>' lines: a line that reads       *)
(* '/commit' once lowered and trimmed, submitted while nothing is pending,  *)
(* runs the commit handler.                                                 *)
C25_DispatchIgnoresCaseAndBlanks ==
    (turn.waiting = {} /\ Strip(Lower(turn.text)) = "/commit") => turn.handler = "commit"

(* C23: a line that does not start with '/', submitted while nothing is    *)
(* pending, is dispatched to UnknownCommand.execute through the registry.  *)
C23_FreeTextGoesToUnknownCommand ==
    (turn.waiting = {} /\ turn.text = "hello") =>
        \E i \in DOMAIN turn.calls : turn.calls[i].name = "unknown"

(* C22: when a collaborator reports failure without raising (the database  *)
(* operation or the git commit returns an error text), the dictionary the  *)
(* handler returns has success = false.                                    *)
C22_ReportedFailureIsFailure ==
    (/\ manager_last.op = "execute_command"
     /\ manager_last.returned.result.message # <<>>
     /\ manager_last.returned.result.message[1] \in
            {"Git commit failed", "Error cleaning database: "}) =>
        ~manager_last.returned.result.success

----------------------------------------------------------------------------
(* Properties of the Session Store, checked under SpecStore, SpecListing,   *)
(* SpecAgent and SpecPump                                                  *)

C28_NewSessionIsListed ==
    [][(agent_last'.op = "start_new_session" /\ agent_last'.arg # NoSession) =>
          /\ agent_last'.arg \notin SessionIds(sessions)
          /\ sessions \subseteq sessions'
          /\ SessionIds(sessions') = SessionIds(sessions) \cup {agent_last'.arg}
          /\ messages' = messages
          /\ session_messages(messages', agent_last'.arg) = <<>>
          /\ current_session' = agent_last'.arg
          /\ \A R \in get_user_sessions(sessions', limit) :
                 agent_last'.arg \in SessionIds(R)]_vars

C30_OnlyCleanPurges ==
    [][((\E s \in sessions : s.id \notin SessionIds(sessions'))
            \/ Len(messages') < Len(messages)) =>
          /\ turn'.handler = "clean_confirmed"
          /\ Lower(turn'.text) = "yes"
          /\ turn'.calls = <<[name |-> "clean",
                              kw |-> [NoKw EXCEPT !.given = {"action"}, !.action = "clean"]]>>]_vars

----------------------------------------------------------------------------
(* Properties of the pending prompt, checked under Spec *)

(* C31: a pending prompt is destroyed when its reply is consumed or        *)
(* cancelled: whenever the engine is idle with nothing pending, no         *)
(* resumable state survives (no pending clean action, commit draft or      *)
(* review data, no model list, no current command, no explain input type). *)
C31_IdleKeepsNoResumableState ==
    (pc = "idle" /\ Waiting(app) = {}) =>
        /\ app.pending_clean_action = ""
        /\ app.pending_commit_message = ""
        /\ app.pending_review_data = NoReviewData
        /\ app.models = <<>>
        /\ app.current_command = ""
        /\ app.explain_input_type = ""

(* C32: the database clean is executed only when the input just before the *)
(* 'yes' reply chose the clean action in the same /clean invocation and    *)
(* so displayed the deletion warning; a 'yes' at the action prompt of a    *)
(* later /clean never executes it.                                         *)
C32_CleanNeedsItsWarning ==
    [][(turn' # turn /\ turn'.handler = "clean_confirmed") =>
          /\ turn.handler = "clean_action"
          /\ turn.render = <<"warning">>]_vars


----------------------------------------------------------------------------
(* SpecCancel: the engine of Spec, whose handler coroutine may also be     *)
(* cancelled at one of its awaits.                                         *)

(* asyncio.CancelledError raised in a wrapped handler at `await            *)
(* command_task` or at the pause that follows it.  CancelledError is no    *)
(* Exception: the clause `except Exception: progress_task.cancel()` and    *)
(* the outer `except Exception` are passed over, `finally:                 *)
(* self._hide_progress()` runs, and the three _execute_explain_* reset     *)
(* their two fields in their own finally clause.  The command task, being  *)
(* awaited, is cancelled with the handler; the animation task is cancelled *)
(* only if progress_task.cancel() was reached before.  The error leaves    *)
(* on_input_submitted and ends the message loop.                           *)
HandlerCancelled ==
    /\ pc \in {"running", "completing"}
    /\ progress' = [progress EXCEPT !.display = FALSE]
    /\ app' = IF work.handler = "explain_run"
              THEN [app EXCEPT !.explain_waiting_for_input = FALSE, !.explain_input_type = ""]
              ELSE app
    /\ pc' = "exited"
    /\ UNCHANGED <<sessions, messages, clock, current_session, agent_last, manager_last>>
    /\ UNCHANGED <<anim, work, turn, inbox>>

SpecCancel == Init /\ [][Next \/ HandlerCancelled]_vars

(* C33: whenever no handler call is in flight, the progress indicator is   *)
(* hidden and no animation task is still alive, whether the wrapped call   *)
(* returned a result or the handler coroutine was cancelled meanwhile.     *)
C33_NoProgressOutsideCalls ==
    pc \notin {"running", "completing"} =>
        /\ ~progress.display
        /\ anim.status \in {"none", "finished", "cancelled"}

----------------------------------------------------------------------------
(* Properties of the replies to a prompt, checked under Spec *)

(* C34: a reply that is not empty and is not one the pending prompt        *)
(* accepts (a model number out of range or not a number, an unknown clean  *)
(* action, an unknown explain option, a review reply other than yes and    *)
(* no) leaves the engine waiting for the same prompt.                      *)
C34_InvalidReplyKeepsPrompt ==
    (/\ pc = "idle"
     /\ turn.text \in {"hello", "5"}
     /\ turn.waiting # {}
     /\ turn.handler \in {"model_choice", "clean_action", "explain_input",
                          "review_confirmation"}
     /\ (turn.handler = "clean_action" => turn.calls # <<>>))
        => Waiting(app) = turn.waiting

----------------------------------------------------------------------------
(* SpecScreen: the command screen (ui/command_screen.py), which runs every *)
(* command by name and shows what it returns                               *)

(* CommandScreen.on_input_submitted with _process_command and              *)
(* _display_command_result: a blank line does nothing; /exit, /help and    *)
(* /clear are the screen's own; a line without the slash and a name        *)
(* is_command_available rejects are reported; every other name goes to    *)
(* execute_command without arguments and the dictionary is shown by its    *)
(* success key alone.  The screen keeps no waiting condition.              *)
ProcessCommand ==
    /\ pump_ready(pc)
    /\ \E raw \in CommandLines \cup
                  {"", " ", "hello", "/exit", "/quit", "/help", "/bogus", "/COMMIT"} :
         LET command_text == Strip(raw)
             command_name ==
                 CASE Lower(command_text) = "/setup" -> "setup"
                   [] Lower(command_text) = "/models" -> "models"
                   [] Lower(command_text) = "/init" -> "init"
                   [] Lower(command_text) = "/clean" -> "clean"
                   [] Lower(command_text) = "/commit" -> "commit"
                   [] Lower(command_text) = "/review-changes" -> "review-changes"
                   [] Lower(command_text) = "/explain" -> "explain"
                   [] OTHER -> "bogus"
             shown(render) == Turn(command_text, {}, "process_command", <<>>, FALSE, render)
         IN IF command_text = ""
            THEN UNCHANGED <<sessions, messages, turn, pc>>
            ELSE IF Lower(command_text) \in {"/exit", "/quit"}
            THEN /\ pc' = "exited"
                 /\ turn' = shown(<<>>)
                 /\ UNCHANGED <<sessions, messages>>
            ELSE IF Lower(command_text) \in {"/help", "/clear"}
            THEN /\ turn' = shown(<<"local">>)
                 /\ UNCHANGED <<sessions, messages, pc>>
            ELSE IF command_text = "hello" \/ command_name \notin SeqToSet(get_available_commands)
            THEN /\ turn' = shown(<<"failure">>)
                 /\ UNCHANGED <<sessions, messages, pc>>
            ELSE \E env \in EnvsFor(command_name, NoKw,
                                    HasRoom(sessions, messages, MaxAppSessions, MaxAppMessages)) :
                   LET r == execute_command(command_name, NoKw, env, sessions, messages, clock)
                   IN /\ sessions' = r.sessions
                      /\ messages' = r.messages
                      /\ turn' = [shown(<<"starting">> \o ShowResult(r.result))
                                    EXCEPT !.calls = <<[name |-> command_name, kw |-> NoKw]>>,
                                           !.effects = <<r.effect>>,
                                           !.results = <<Returned(r.result)>>]
                      /\ UNCHANGED pc
    /\ UNCHANGED <<clock, current_session, agent_last, manager_last>>
    /\ UNCHANGED <<app, progress, anim, work, inbox>>

SpecScreen == Init /\ [][ProcessCommand]_vars

(* C35: an outcome that asks for a reply and that the caller of the        *)
(* command does not recognise as its prompt is shown as a failure and sets *)
(* no waiting condition: it is never shown as a success.                   *)
C35_UnrecognisedPromptIsFailure ==
    (/\ turn.handler = "process_command"
     /\ turn.results # <<>>
     /\ turn.results[1].prompt # "")
        => /\ Waiting(app) = {}
           /\ Contains(turn.render, "failure")
           /\ ~Contains(turn.render, "success")

----------------------------------------------------------------------------
(* Properties of the commit draft, checked under Spec *)

(* C36: after a reply `edit <text>` the pending draft is the text typed    *)
(* after the prefix, with its case kept, and a later yes never passes the  *)
(* lowered form of a typed text to the commit command.                     *)
C36_DraftKeepsTypedText ==
    /\ (/\ pc = "idle"
        /\ turn.waiting = {"commit_confirmation"}
        /\ StartsWith(turn.text, "edit "))
          => app.pending_commit_message = DropPrefix5(turn.text)
    /\ (/\ turn.waiting = {"commit_confirmation"}
        /\ Lower(turn.text) = "yes"
        /\ turn.calls # <<>>)
          => turn.calls[1].kw.commit_message # Lower("Fix Bug")

----------------------------------------------------------------------------
(* Properties of the review prompt, checked under Spec *)

(* C37: when the review save prompt is answered with no or an empty line   *)
(* (the review is reported as discarded), the store holds no Session and   *)
(* no Message of that review.                                              *)
C37_DiscardedReviewNotStored ==
    [][(turn' # turn /\ Contains(turn'.render, "discarded")) =>
          (/\ \A s \in sessions' : s.id # app.pending_review_data.session_id
           /\ \A i \in DOMAIN messages' :
                 messages'[i].session_id # app.pending_review_data.session_id)]_vars

----------------------------------------------------------------------------
(* Properties of the AI-backed commands, checked under SpecManager *)

C39_DbSessionClosed ==
    manager_last.op = "execute_command" =>
        /\ manager_last.returned.db.opened => manager_last.returned.db.closed
        /\ manager_last.returned.db.opened <=>
              (/\ Strip(Lower(manager_last.command_name)) \in SeqToSet(get_available_commands)
               /\ manager_last.raises # "get_db")

C39_Witness ==
    /\ manager_last.op = "execute_command"
    /\ manager_last.raises = "execute"
    /\ manager_last.returned.db.opened
    /\ manager_last.returned.db.closed
    /\ ~manager_last.returned.result.success

(* C40: a model change through the models command (a model of the list is  *)
(* given and the command reports success) leaves the stored API key as it  *)
(* was, sets selected_model and the configured flag, and creates or        *)
(* changes no Session and no Message.                                      *)
C40_ModelChangeKeepsApiKey ==
    [][(/\ manager_last' # manager_last
        /\ manager_last'.op = "execute_command"
        /\ Strip(Lower(manager_last'.command_name)) = "models"
        /\ manager_last'.kw.model \in SeqToSet(get_available_models)
        /\ manager_last'.returned.result.success) =>
          (/\ \A u \in StoredUsers :
                 /\ manager_last'.returned.user[u].gemini_api_key = u.gemini_api_key
                 /\ manager_last'.returned.user[u].selected_model = manager_last'.kw.model
                 /\ manager_last'.returned.user[u].is_configured
           /\ sessions' = sessions
           /\ messages' = messages)]_vars

====
